---------------------------- MODULE Spec2Model ----------------------------
(***************************************************************************)
(* Model of the terrain core of NoiseVisualizationTool:                    *)
(*   - evaluateMathExpression (Chunk.tsx 217-243): the regex rewriting of   *)
(*     the user's formula and the evaluation of the rewritten text as the   *)
(*     body of a JavaScript function;                                       *)
(*   - createNoiseEngines / createDensityFunction / cubePositions           *)
(*     (Chunk.tsx 246-536): the blocky voxel enumerator and the density     *)
(*     function handed to the marching-cubes mesher.                        *)
(* Text is a sequence of one-character strings.  JavaScript numbers are     *)
(* exact rationals (or the q-th root of one), NaN and the two infinities;   *)
(* the sign of zero is not tracked.                                         *)
(***************************************************************************)
EXTENDS Integers, Sequences, FiniteSets, TLC

VARIABLES
    expression,     \* evaluator: the text typed into the formula field
    noiseValue,     \* evaluator: the noise scalar N of the call
    globals,        \* the JavaScript global object (ambient state)
    result,         \* evaluator: the value returned by the last call
    path,           \* evaluator: which return statement produced it
    calls,          \* evaluator: number of calls made
    sizeX, sizeY, sizeZ,        \* Chunk props: the grid
    isolevel, amplitude, verticalOffset,
    noiseSettings, use3D, isSmooth, mathExpression,
    offsetX, offsetZ,
    updateTrigger,  \* Chunk prop: App's manual update counter
    autoUpdate,     \* App: whether the controls reach the Chunk as they change
    controls,       \* App: the live values of the Terrain and noise controls
    frozenValues,   \* App: the snapshot the Chunk receives while auto-update is off
    preview,        \* NoisePreview: its local state (mode flags and offsets)
    owner,          \* the parent of a NoisePreview with controlled offsets
    cubePositions,  \* Chunk: the memoised list of cube positions
    smoothGeometry, \* Chunk: the memoised marching-cubes geometry (or null)
    instancedMesh,  \* Chunk: the instanced mesh the cubes are drawn with
    regenerated,    \* Chunk: the last render ran the enumerator or the mesher
    mount,          \* Chunk: "none" before its first render, then "rendered",
                    \* or "thrown" once a render raised an error
    renders         \* Chunk: number of renders the behaviour has made

(***************************************************************************)
(* Bounds of the model.                                                    *)
(***************************************************************************)
MaxExprLen == 3
MaxCalls == 2
MaxSize == 2
MaxRenders == 3

(***************************************************************************)
(* Integer helpers.                                                        *)
(***************************************************************************)
AbsInt(i) == IF i < 0 THEN -i ELSE i

RECURSIVE Gcd(_, _)
Gcd(a, b) == IF b = 0 THEN a ELSE Gcd(b, a % b)

RECURSIVE IntPow(_, _)
IntPow(b, e) == IF e = 0 THEN 1 ELSE b * IntPow(b, e - 1)

(***************************************************************************)
(* JavaScript values.  Every value is a record of the same shape:          *)
(*   t = "num":  sign(n) * (|n|/d)^(1/q); q = 1 is an exact rational and     *)
(*               q > 1 the irrational q-th root of a rational;              *)
(*   t = "nan", "inf" (n = 1 or -1), "undefined", "null",                   *)
(*   t = "bool" (n = 1 or 0), "fn" (n = 1 Math.abs, n = 2 Math.pow),         *)
(*   t = "math" (the Math object).                                          *)
(***************************************************************************)
Val(t, n, d, q) == [t |-> t, n |-> n, d |-> d, q |-> q]

\* The integer n.
Integer(n) == Val("num", n, 1, 1)

\* n / d in lowest terms, g being the greatest common divisor of the two.
Reduced(n, d, g) == Val("num", IF d < 0 THEN -(n \div g) ELSE n \div g, AbsInt(d) \div g, 1)

Num(n, d) == Reduced(n, d, Gcd(AbsInt(n), AbsInt(d)))

NaN == Val("nan", 0, 1, 1)
PosInf == Val("inf", 1, 1, 1)
NegInf == Val("inf", -1, 1, 1)
Undefined == Val("undefined", 0, 1, 1)
Null == Val("null", 0, 1, 1)
Bool(b) == Val("bool", IF b THEN 1 ELSE 0, 1, 1)
FnAbs == Val("fn", 1, 1, 1)
FnPow == Val("fn", 2, 1, 1)
MathObj == Val("math", 0, 1, 1)

IsRat(v) == v.t = "num" /\ v.q = 1
IsRoot(v) == v.t = "num" /\ v.q > 1
IsInt(v) == IsRat(v) /\ v.d = 1

\* An operation the model does not cover: evaluating it stops the check.
Unsupported == CHOOSE v \in {} : TRUE


(***************************************************************************)
(* Exact arithmetic on rationals (values with t = "num", q = 1).           *)
(***************************************************************************)
RSub(a, b) == Num(a.n * b.d - b.n * a.d, a.d * b.d)
RAdd(a, b) == Num(a.n * b.d + b.n * a.d, a.d * b.d)
RMul(a, b) == Num(a.n * b.n, a.d * b.d)
RLt(a, b) == a.n * b.d < b.n * a.d
RFloor(a) == a.n \div a.d

\* r^k <= m, computed without leaving the range of m.
RECURSIVE PowLeq(_, _, _)
PowLeq(r, k, m) ==
    IF k = 0 THEN 1 <= m
    ELSE IF r = 0 THEN TRUE
    ELSE PowLeq(r, k - 1, m \div r)

\* The largest r in lo..hi with r^k <= m (lo^k <= m is given).
RECURSIVE RootSearch(_, _, _, _)
RootSearch(m, k, lo, hi) ==
    IF lo >= hi THEN lo
    ELSE LET mid == (lo + hi + 1) \div 2
         IN  IF PowLeq(mid, k, m) THEN RootSearch(m, k, mid, hi)
             ELSE RootSearch(m, k, lo, mid - 1)

IntRoot(m, k) == RootSearch(m, k, 0, m)
IsPerfectPower(m, k) == IntPow(IntRoot(m, k), k) = m

\* The positive real (n/d)^(1/q) for n, d > 0, in canonical form: the largest
\* divisor k of q for which n/d is a perfect k-th power is taken out.
MkRoot(n, d, q) ==
    LET largest(ks) == CHOOSE x \in ks : \A y \in ks : y <= x
        root(k) == Val("num", IntRoot(n, k), IntRoot(d, k), q \div k)
    IN  root(largest({k \in 1..q : q % k = 0 /\ IsPerfectPower(n, k) /\ IsPerfectPower(d, k)}))

(***************************************************************************)
(* JavaScript's numeric operators (ECMAScript: ToNumber, ToInt32, unary -,  *)
(* binary - and *, bitwise | and ^, Math.abs, Math.pow, isFinite), which    *)
(* the compiled function body of line 234 runs.                             *)
(***************************************************************************)
ToNumber(v) ==
    CASE v.t \in {"num", "nan", "inf"} -> v
      [] v.t = "null" -> Val("num", 0, 1, 1)
      [] v.t = "bool" -> Val("num", v.n, 1, 1)
      [] OTHER -> Val("nan", 0, 1, 1)

IsZero(x) == x.t = "num" /\ x.n = 0
IsNeg(x) == x.t \in {"num", "inf"} /\ x.n < 0

JsNeg(v) ==
    LET neg(x) == IF x.t = "nan" THEN x ELSE [x EXCEPT !.n = -x.n]
    IN  neg(ToNumber(v))

JsAbs(v) ==
    LET abs(x) == IF x.t = "nan" THEN x ELSE [x EXCEPT !.n = AbsInt(x.n)]
    IN  abs(ToNumber(v))

JsSub(a, b) ==
    LET sub(x, y) ==
            CASE x.t = "nan" -> x
              [] y.t = "nan" -> y
              [] x.t = "inf" /\ y.t = "inf" -> IF x.n = y.n THEN NaN ELSE x
              [] x.t = "inf" -> x
              [] y.t = "inf" \/ IsZero(x) -> [y EXCEPT !.n = -y.n]
              [] IsRat(x) /\ IsRat(y) -> RSub(x, y)
              [] IsZero(y) -> x
              [] OTHER -> Unsupported
    IN  sub(ToNumber(a), ToNumber(b))

JsMul(a, b) ==
    LET mul(x, y) ==
            CASE x.t = "nan" -> x
              [] y.t = "nan" -> y
              [] IsZero(x) \/ IsZero(y) ->
                    IF x.t = "inf" \/ y.t = "inf" THEN NaN ELSE Val("num", 0, 1, 1)
              [] x.t = "inf" \/ y.t = "inf" ->
                    Val("inf", IF IsNeg(x) = IsNeg(y) THEN 1 ELSE -1, 1, 1)
              [] IsRat(x) /\ IsRat(y) -> RMul(x, y)
              [] OTHER -> Unsupported
    IN  mul(ToNumber(a), ToNumber(b))

\* |x| compared with 1, for a finite number x: -1, 0 or 1.
MagVsOne(x) ==
    IF AbsInt(x.n) < x.d THEN -1 ELSE IF AbsInt(x.n) = x.d THEN 0 ELSE 1

JsPow(a, b) ==
    LET pow(x, y) ==
            CASE y.t = "nan" -> y
              [] IsZero(y) -> Val("num", 1, 1, 1)
              [] x.t = "nan" -> x
              [] y.t = "inf" /\ x.t = "inf" -> IF y.n > 0 THEN PosInf ELSE Val("num", 0, 1, 1)
              [] y.t = "inf" ->
                    LET versus(m) == IF m = 0 THEN NaN
                                     ELSE IF (m > 0) = (y.n > 0) THEN PosInf
                                     ELSE Val("num", 0, 1, 1)
                    IN  versus(MagVsOne(x))
              [] x.t = "inf" ->
                    IF IsNeg(y) THEN Val("num", 0, 1, 1)
                    ELSE IF x.n < 0 /\ IsInt(y) /\ y.n % 2 = 1 THEN NegInf ELSE PosInf
              [] IsZero(x) -> IF IsNeg(y) THEN PosInf ELSE Val("num", 0, 1, 1)
              [] IsNeg(x) /\ ~IsInt(y) -> NaN
              [] IsRoot(y) -> IF MagVsOne(x) = 0 THEN Val("num", 1, 1, 1) ELSE Unsupported
              [] OTHER ->
                    \* x = s * (|n|/d)^(1/q), y = p/r:  s' * ((|n|/d)^p)^(1/(q*r))
                    LET signed(m) == IF IsNeg(x) /\ IsInt(y) /\ y.n % 2 = 1
                                     THEN [m EXCEPT !.n = -m.n] ELSE m
                    IN  signed(MkRoot(IntPow(IF y.n > 0 THEN AbsInt(x.n) ELSE x.d, AbsInt(y.n)),
                                      IntPow(IF y.n > 0 THEN x.d ELSE AbsInt(x.n), AbsInt(y.n)),
                                      x.q * y.d))
    IN  pow(ToNumber(a), ToNumber(b))

ToInt32(v) ==
    LET int(x) == CASE x.t \in {"nan", "inf"} -> 0
                    [] IsRat(x) -> IF x.n >= 0 THEN x.n \div x.d ELSE -((-x.n) \div x.d)
                    [] OTHER -> Unsupported
    IN  int(ToNumber(v))

\* Bitwise operators on two's-complement integers of any width.
RECURSIVE BitOr(_, _)
BitOr(a, b) ==
    IF a = 0 THEN b
    ELSE IF b = 0 THEN a
    ELSE IF a = -1 \/ b = -1 THEN -1
    ELSE 2 * BitOr(a \div 2, b \div 2) + (IF a % 2 = 1 \/ b % 2 = 1 THEN 1 ELSE 0)

RECURSIVE BitXor(_, _)
BitXor(a, b) ==
    IF a = 0 THEN b
    ELSE IF b = 0 THEN a
    ELSE IF a = -1 THEN -b - 1
    ELSE IF b = -1 THEN -a - 1
    ELSE 2 * BitXor(a \div 2, b \div 2) + (IF a % 2 = b % 2 THEN 0 ELSE 1)

Truthy(v) ==
    CASE v.t \in {"num", "bool"} -> v.n # 0
      [] v.t \in {"nan", "undefined", "null"} -> FALSE
      [] OTHER -> TRUE

isFinite(v) == ToNumber(v).t = "num"

(***************************************************************************)
(* Text: sequences of characters.                                          *)
(***************************************************************************)
Digits == <<"0", "1", "2", "3", "4", "5", "6", "7", "8", "9">>
IsDigit(c) == \E i \in 1..10 : Digits[i] = c
DigitVal(c) == (CHOOSE i \in 1..10 : Digits[i] = c) - 1
Letters ==
    {"a", "b", "c", "d", "e", "f", "g", "h", "i", "j", "k", "l", "m", "n", "o", "p",
     "q", "r", "s", "t", "u", "v", "w", "x", "y", "z", "G", "M", "N", "_"}
IsLetter(c) == c \in Letters
\* \w of a regular expression, and the characters of an identifier
IsWord(c) == IsLetter(c) \/ IsDigit(c)

RECURSIVE IntToText(_)
IntToText(i) ==
    IF i < 10 THEN <<Digits[i + 1]>>
    ELSE IntToText(i \div 10) \o <<Digits[(i % 10) + 1]>>

RECURSIVE FracToText(_, _)
FracToText(r, d) ==
    IF r = 0 THEN <<>>
    ELSE <<Digits[((r * 10) \div d) + 1]>> \o FracToText((r * 10) % d, d)

\* N.toString() (line 224) for a rational with a finite decimal expansion,
\* 1e-6 <= |N| < 1e21 or N = 0: sign, integer digits, "." and fraction digits.
toString(v) ==
    LET a == AbsInt(v.n)
        whole == IntToText(a \div v.d)
        frac == FracToText(a % v.d, v.d)
    IN  (IF v.n < 0 THEN <<"-">> ELSE <<>>) \o whole
            \o (IF frac = <<>> THEN <<>> ELSE <<".">> \o frac)

(***************************************************************************)
(* The four rewriting steps of lines 223-231.                              *)
(***************************************************************************)
\* .replace(/\bN\b/g, N.toString())
RECURSIVE ReplaceN(_, _, _)
ReplaceN(s, i, rep) ==
    IF i > Len(s) THEN <<>>
    ELSE LET isMatch == /\ s[i] = "N"
                        /\ (i = 1 \/ ~IsWord(s[i - 1]))
                        /\ (i = Len(s) \/ ~IsWord(s[i + 1]))
         IN  (IF isMatch THEN rep ELSE <<s[i]>>) \o ReplaceN(s, i + 1, rep)

\* .replace(/Math\./g, 'Math.'): every match is replaced by itself
ReplaceMathDot(s) == s

\* The first index k >= i with s[k] = c, or 0.
RECURSIVE IndexFrom(_, _, _)
IndexFrom(s, i, c) ==
    IF i > Len(s) THEN 0
    ELSE IF s[i] = c THEN i
    ELSE IndexFrom(s, i + 1, c)

MathAbsOpen == <<"M", "a", "t", "h", ".", "a", "b", "s", "(">>
MathPowOpen == <<"M", "a", "t", "h", ".", "p", "o", "w", "(">>

\* .replace(/\|([^|]+)\|/g, 'Math.abs($1)'), scanning from index i
RECURSIVE ReplaceAbs(_, _)
ReplaceAbs(s, i) ==
    LET replaced(j) ==
            IF s[i] = "|" /\ j > i + 1
            THEN MathAbsOpen \o SubSeq(s, i + 1, j - 1) \o <<")">> \o ReplaceAbs(s, j + 1)
            ELSE <<s[i]>> \o ReplaceAbs(s, i + 1)
    IN  IF i > Len(s) THEN <<>> ELSE replaced(IndexFrom(s, i + 1, "|"))

\* The last index of the longest run of characters other than ( and ) starting
\* at i (i - 1 when the run is empty): [^()]+ at its greediest.
RECURSIVE NonParenRunEnd(_, _)
NonParenRunEnd(s, i) ==
    IF i > Len(s) \/ s[i] \in {"(", ")"} THEN i - 1
    ELSE NonParenRunEnd(s, i + 1)

\* The last index of the run of white space starting at i: \s* at its greediest.
RECURSIVE SpaceRunEnd(_, _)
SpaceRunEnd(s, i) ==
    IF i > Len(s) \/ s[i] # " " THEN i - 1
    ELSE SpaceRunEnd(s, i + 1)

\* The end of ([^()]+|\([^)]*\)) matched at r as the last group of the
\* pattern (nothing follows, so the first alternative's longest run wins), or 0.
OperandEndAt(s, r) ==
    LET end(e) == IF e >= r THEN e
                  ELSE IF r <= Len(s) /\ s[r] = "(" THEN IndexFrom(s, r + 1, ")")
                  ELSE 0
    IN  end(NonParenRunEnd(s, r))

\* \s*(operand) after the ^ at index c: \s* gives white space back one
\* character at a time until the operand matches.  <<start, end>> or <<0, 0>>.
RECURSIVE SecondGroup(_, _, _)
SecondGroup(s, r, c) ==
    LET group(e) == IF e > 0 THEN <<r, e>> ELSE SecondGroup(s, r - 1, c)
    IN  IF r <= c THEN <<0, 0>> ELSE group(OperandEndAt(s, r))

\* The match with the first group ending at e (if any): \s*\^\s*(operand).
\* <<g1end, g2start, g2end>> or <<0, 0, 0>>.
RestAfterFirst(s, e) ==
    LET match(g) == IF g[1] > 0 THEN <<e, g[1], g[2]>> ELSE <<0, 0, 0>>
        after(c) == IF c <= Len(s) /\ s[c] = "^"
                    THEN match(SecondGroup(s, SpaceRunEnd(s, c + 1) + 1, c))
                    ELSE <<0, 0, 0>>
    IN  after(SpaceRunEnd(s, e + 1) + 1)

\* [^()]+ as the first group, backtracking from its longest end e down to i.
RECURSIVE FirstGroupRun(_, _, _)
FirstGroupRun(s, i, e) ==
    LET try(m) == IF m[1] > 0 THEN m ELSE FirstGroupRun(s, i, e - 1)
    IN  IF e < i THEN <<0, 0, 0>> ELSE try(RestAfterFirst(s, e))

\* ([^()]+|\([^)]*\))\s*\^\s*([^()]+|\([^)]*\)) matched at index i.
CaretMatchAt(s, i) ==
    LET close(k) == IF k > 0 THEN RestAfterFirst(s, k) ELSE <<0, 0, 0>>
        first(run) == IF run[1] > 0 THEN run
                      ELSE IF s[i] = "(" THEN close(IndexFrom(s, i + 1, ")"))
                      ELSE <<0, 0, 0>>
    IN  first(FirstGroupRun(s, i, NonParenRunEnd(s, i)))

\* .replace(<the pattern above>/g, 'Math.pow($1, $2)'), scanning from index i
RECURSIVE ReplaceCaret(_, _)
ReplaceCaret(s, i) ==
    LET replaced(m) ==
            IF m[1] > 0
            THEN MathPowOpen \o SubSeq(s, i, m[1]) \o <<",", " ">>
                     \o SubSeq(s, m[2], m[3]) \o <<")">> \o ReplaceCaret(s, m[3] + 1)
            ELSE <<s[i]>> \o ReplaceCaret(s, i + 1)
    IN  IF i > Len(s) THEN <<>> ELSE replaced(CaretMatchAt(s, i))

\* safeExpression of lines 223-231
safeExpression(expr, N) ==
    ReplaceCaret(ReplaceCaret(ReplaceAbs(ReplaceMathDot(ReplaceN(expr, 1, toString(N))), 1), 1), 1)

(***************************************************************************)
(* new Function('Math', `return ${safeExpression}`) (line 234), first part: *)
(* the ECMAScript lexical grammar over the characters the rewritten text    *)
(* can hold: digits, letters, white space and  - -- ^ | || * ** ( ) , .     *)
(* A token is [k |-> "num" | "id" | "p" | "bad", s |-> its text, v |-> the  *)
(* value of a numeric literal].                                             *)
(***************************************************************************)
Tok(k, s, v) == [k |-> k, s |-> s, v |-> v]

\* The last index of the run of characters of class digit (w = FALSE) or
\* word (w = TRUE) starting at i.
RECURSIVE ClassRunEnd(_, _, _)
ClassRunEnd(s, i, w) ==
    IF i > Len(s) \/ ~(IF w THEN IsWord(s[i]) ELSE IsDigit(s[i])) THEN i - 1
    ELSE ClassRunEnd(s, i + 1, w)

RECURSIVE DigitsValue(_, _, _)
DigitsValue(s, i, j) ==
    IF j < i THEN 0 ELSE 10 * DigitsValue(s, i, j - 1) + DigitVal(s[j])

RECURSIVE TextToString(_, _, _)
TextToString(s, i, j) ==
    IF j < i THEN "" ELSE TextToString(s, i, j - 1) \o s[j]

\* DecimalLiteral at i: digits, optionally "." and more digits.
\* <<value, last index>>
NumericLiteralAt(s, i) ==
    LET literal(e, f) ==
            IF e > i /\ s[i] = "0" THEN Unsupported      \* legacy octal: not modelled
            ELSE IF f > e
            THEN <<Num(DigitsValue(s, i, e) * IntPow(10, f - e - 1) + DigitsValue(s, e + 2, f),
                       IntPow(10, f - e - 1)), f>>
            ELSE <<Val("num", DigitsValue(s, i, e), 1, 1), e>>
        fraction(e) ==
            literal(e, IF e < Len(s) /\ s[e + 1] = "." THEN ClassRunEnd(s, e + 2, FALSE) ELSE e)
    IN  fraction(ClassRunEnd(s, i, FALSE))

Punctuator2 == {<<"-", "-">>, <<"|", "|">>, <<"*", "*">>}

RECURSIVE Lex(_, _)
Lex(s, i) ==
    LET \* the character after a numeric literal must not start an identifier
        number(lit) ==
            IF lit[2] < Len(s) /\ IsLetter(s[lit[2] + 1])
            THEN IF s[lit[2] + 1] \in {"e", "n", "x", "b", "o"} THEN Unsupported
                 ELSE <<Tok("bad", "", NaN)>>
            ELSE <<Tok("num", "", lit[1])>> \o Lex(s, lit[2] + 1)
        word(e) == <<Tok("id", TextToString(s, i, e), NaN)>> \o Lex(s, e + 1)
    IN  IF i > Len(s) THEN <<>>
        ELSE IF s[i] = " " THEN Lex(s, i + 1)
        ELSE IF IsDigit(s[i]) THEN number(NumericLiteralAt(s, i))
        ELSE IF IsLetter(s[i]) THEN word(ClassRunEnd(s, i, TRUE))
        ELSE IF s[i] = "." /\ i < Len(s) /\ IsDigit(s[i + 1]) THEN Unsupported
        ELSE IF i < Len(s) /\ <<s[i], s[i + 1]>> \in Punctuator2
        THEN <<Tok("p", s[i] \o s[i + 1], NaN)>> \o Lex(s, i + 2)
        ELSE <<Tok("p", s[i], NaN)>> \o Lex(s, i + 1)

(***************************************************************************)
(* new Function (line 234), second part: the ECMAScript expression grammar *)
(* over those tokens, lowest precedence first:                             *)
(*    ,   ||   |   ^   -   *   **   unary - and prefix --   postfix --      *)
(*    member access and call   literal, identifier, ( Expression )          *)
(* A parse is [ok, e, i]: success, the syntax tree, the next token index.   *)
(***************************************************************************)
ParseFail == [ok |-> FALSE, e |-> <<>>, i |-> 0]
Parsed(e, i) == [ok |-> TRUE, e |-> e, i |-> i]
IsP(ts, i, s) == i <= Len(ts) /\ ts[i].k = "p" /\ ts[i].s = s
LevelOp == <<",", "||", "|", "^", "-", "*">>

RECURSIVE StripParens(_)
StripParens(e) == IF e[1] = "paren" THEN StripParens(e[2]) ELSE e

\* The operand of -- must be a reference.  A call is accepted by the parser
\* and throws a ReferenceError when run (V8's web-compatibility rule).
IsUpdateTarget(e) == StripParens(e)[1] \in {"id", "member", "call"}

RECURSIVE ParseLevel(_, _, _)
RECURSIVE ParseRest(_, _, _)
RECURSIVE ParseExpo(_, _)
RECURSIVE ParseUnary(_, _)
RECURSIVE ParseCallRest(_, _)
RECURSIVE ParseArgs(_, _, _)
RECURSIVE ParsePrimary(_, _)

\* Left-associative binary operators of level lv (0 is the comma operator).
ParseLevel(ts, i, lv) ==
    IF lv > 5 THEN ParseExpo(ts, i)
    ELSE ParseRest(ts, ParseLevel(ts, i, lv + 1), lv)

ParseRest(ts, l, lv) ==
    LET binary(r) ==
            IF r.ok THEN ParseRest(ts, Parsed(<<"bin", LevelOp[lv + 1], l.e, r.e>>, r.i), lv)
            ELSE ParseFail
    IN  IF ~l.ok THEN ParseFail
        ELSE IF IsP(ts, l.i, LevelOp[lv + 1]) THEN binary(ParseLevel(ts, l.i + 1, lv + 1))
        ELSE l

\* UnaryExpression | UpdateExpression ** ExponentiationExpression
ParseExpo(ts, i) ==
    LET power(u, r) == IF r.ok THEN Parsed(<<"bin", "**", u.e, r.e>>, r.i) ELSE ParseFail
        base(u) == IF ~u.ok THEN ParseFail
                   ELSE IF ~IsP(ts, u.i, "**") THEN u
                   ELSE IF u.e[1] = "neg" THEN ParseFail
                   ELSE power(u, ParseExpo(ts, u.i + 1))
    IN  base(ParseUnary(ts, i))

ParseUnary(ts, i) ==
    LET prefix(u) == IF ~u.ok THEN ParseFail
                     ELSE IF ts[i].s = "-" THEN Parsed(<<"neg", u.e>>, u.i)
                     ELSE IF IsUpdateTarget(u.e) THEN Parsed(<<"pre", u.e>>, u.i)
                     ELSE ParseFail
        postfix(l) == IF ~l.ok THEN ParseFail
                      ELSE IF ~IsP(ts, l.i, "--") THEN l
                      ELSE IF IsUpdateTarget(l.e) THEN Parsed(<<"post", l.e>>, l.i + 1)
                      ELSE ParseFail
    IN  IF IsP(ts, i, "-") \/ IsP(ts, i, "--") THEN prefix(ParseUnary(ts, i + 1))
        ELSE postfix(ParseCallRest(ts, ParsePrimary(ts, i)))

\* MemberExpression . IdentifierName   and   CallExpression Arguments
ParseCallRest(ts, l) ==
    LET call(a) == IF a.ok THEN ParseCallRest(ts, Parsed(<<"call", l.e, a.e>>, a.i))
                   ELSE ParseFail
    IN  IF ~l.ok THEN ParseFail
        ELSE IF IsP(ts, l.i, ".")
        THEN IF l.i < Len(ts) /\ ts[l.i + 1].k = "id"
             THEN ParseCallRest(ts, Parsed(<<"member", l.e, ts[l.i + 1].s>>, l.i + 2))
             ELSE ParseFail
        ELSE IF IsP(ts, l.i, "(") THEN call(ParseArgs(ts, l.i + 1, <<>>))
        ELSE l

\* Arguments: ( ), ( a, b ) or ( a, b, ); i is the index after "(" or ","
ParseArgs(ts, i, acc) ==
    LET argument(a) ==
            IF ~a.ok THEN ParseFail
            ELSE IF IsP(ts, a.i, ",") THEN ParseArgs(ts, a.i + 1, Append(acc, a.e))
            ELSE IF IsP(ts, a.i, ")") THEN Parsed(Append(acc, a.e), a.i + 1)
            ELSE ParseFail
    IN  IF IsP(ts, i, ")") THEN Parsed(acc, i + 1)
        ELSE argument(ParseLevel(ts, i, 1))

ParsePrimary(ts, i) ==
    LET parenthesized(e) == IF e.ok /\ IsP(ts, e.i, ")") THEN Parsed(<<"paren", e.e>>, e.i + 1)
                            ELSE ParseFail
    IN  IF i > Len(ts) THEN ParseFail
        ELSE IF ts[i].k = "num" THEN Parsed(<<"lit", ts[i].v>>, i + 1)
        ELSE IF ts[i].k = "id" THEN
            CASE ts[i].s = "null" -> Parsed(<<"lit", Null>>, i + 1)
              [] ts[i].s = "true" -> Parsed(<<"lit", Bool(TRUE)>>, i + 1)
              [] ts[i].s = "false" -> Parsed(<<"lit", Bool(FALSE)>>, i + 1)
              [] OTHER -> Parsed(<<"id", ts[i].s>>, i + 1)
        ELSE IF IsP(ts, i, "(") THEN parenthesized(ParseLevel(ts, i + 1, 0))
        ELSE ParseFail

\* The body "return <tokens>": an empty expression is allowed; otherwise one
\* Expression must use every token.  A "bad" token never parses.
ParseBody(ts) ==
    LET whole(e) == IF e.ok /\ e.i = Len(ts) + 1 THEN e ELSE ParseFail
    IN  IF ts = <<>> THEN Parsed(<<"lit", Undefined>>, 1)
        ELSE whole(ParseLevel(ts, 1, 0))

(***************************************************************************)
(* func(Math) (line 235): running the compiled body.  The body is sloppy-   *)
(* mode code whose scope chain is the parameter Math and then the global    *)
(* object; the model keeps one global variable, G, in the state variable    *)
(* globals: [declared |-> BOOLEAN, v |-> its value].                        *)
(* An outcome is [thrown, v, g]: whether an exception was thrown, the value *)
(* (when not), and the global object afterwards.                            *)
(***************************************************************************)
Done(v, g) == [thrown |-> FALSE, v |-> v, g |-> g]
Thrown(g) == [thrown |-> TRUE, v |-> Undefined, g |-> g]

\* The binary operators other than || and the comma, on evaluated operands.
ApplyBinary(op, a, b) ==
    CASE op = "|" -> Val("num", BitOr(ToInt32(a), ToInt32(b)), 1, 1)
      [] op = "^" -> Val("num", BitXor(ToInt32(a), ToInt32(b)), 1, 1)
      [] op = "-" -> JsSub(a, b)
      [] op = "*" -> JsMul(a, b)
      [] op = "**" -> JsPow(a, b)

\* Calling a value with evaluated arguments: only Math.abs and Math.pow are
\* functions; calling anything else throws a TypeError.
ApplyCall(f, args, g) ==
    LET arg(k) == IF k <= Len(args) THEN args[k] ELSE Undefined
    IN  IF f.t # "fn" THEN Thrown(g)
        ELSE Done(IF f.n = 1 THEN JsAbs(arg(1)) ELSE JsPow(arg(1), arg(2)), g)

RECURSIVE Eval(_, _)
RECURSIVE EvalArgs(_, _, _, _)

\* ArgumentListEvaluation, left to right; acc holds the values so far.
EvalArgs(es, k, acc, g) ==
    LET next(a) == IF a.thrown THEN a ELSE EvalArgs(es, k + 1, Append(acc, a.v), a.g)
    IN  IF k > Len(es) THEN Done(acc, g) ELSE next(Eval(es[k], g))

\* The call of the callee fa[1] on the arguments fa[2].
Call(fa) == IF fa[2].thrown THEN fa[2] ELSE ApplyCall(fa[1].v, fa[2].v, fa[2].g)

\* The operator op on the operands ab[1] and ab[2].
Binary(op, ab) ==
    IF ab[2].thrown \/ op \in {",", "||"} THEN ab[2]
    ELSE Done(ApplyBinary(op, ab[1].v, ab[2].v), ab[2].g)

Eval(e, g) ==
    LET member(o) ==
            IF o.thrown THEN o
            ELSE IF o.v.t \in {"undefined", "null"} THEN Thrown(o.g)   \* TypeError
            ELSE IF o.v.t # "math" THEN Done(Undefined, o.g)
            ELSE IF e[3] = "abs" THEN Done(FnAbs, o.g)
            ELSE IF e[3] = "pow" THEN Done(FnPow, o.g)
            ELSE Unsupported
        \* <<callee, arguments>>, the callee standing for both when it threw
        arguments(f) == <<f, IF f.thrown THEN f ELSE EvalArgs(e[3], 1, <<>>, f.g)>>
        neg(a) == IF a.thrown THEN a ELSE Done(JsNeg(a.v), a.g)
        \* <<reference, its outcome>>
        target(t) == <<t, Eval(t, g)>>
        update(tc) ==
            LET assign(old, new) ==
                    Done(IF e[1] = "pre" THEN new ELSE old, [declared |-> TRUE, v |-> new])
                decrement(old) == assign(old, JsSub(old, Integer(1)))
            IN  IF tc[2].thrown THEN tc[2]
                ELSE IF tc[1][1] = "call" THEN Thrown(tc[2].g)   \* ReferenceError
                ELSE IF tc[1][1] # "id" \/ tc[1][2] # "G" THEN Unsupported
                ELSE decrement(ToNumber(tc[2].v))
        \* <<left, right>>, the left operand standing for both when the right
        \* one is not evaluated
        operands(a) ==
            <<a, IF a.thrown \/ (e[2] = "||" /\ Truthy(a.v)) THEN a ELSE Eval(e[4], a.g)>>
    IN  CASE e[1] = "lit" -> Done(e[2], g)
          [] e[1] = "paren" -> Eval(e[2], g)
          [] e[1] = "id" ->
                CASE e[2] = "Math" -> Done(MathObj, g)
                  [] e[2] = "G" -> IF g.declared THEN Done(g.v, g) ELSE Thrown(g)
                  [] e[2] = "undefined" -> Done(Undefined, g)
                  [] e[2] = "NaN" -> Done(NaN, g)
                  [] e[2] = "Infinity" -> Done(PosInf, g)
                  [] OTHER -> Thrown(g)                      \* ReferenceError
          [] e[1] = "member" -> member(Eval(e[2], g))
          [] e[1] = "call" -> Call(arguments(Eval(e[2], g)))
          [] e[1] = "neg" -> neg(Eval(e[2], g))
          [] e[1] \in {"pre", "post"} -> update(target(StripParens(e[2])))
          [] e[1] = "bin" -> Binary(e[2], operands(Eval(e[3], g)))

\* new Function('Math', `return ${safeExpression}`) then func(Math)
\* (lines 234-235): a body that does not parse throws before anything runs.
Run(func, g) == IF func.ok THEN Eval(func.e, g) ELSE Thrown(g)

\* evaluateMathExpression with line 238 returning result unchecked.
evaluateMathExpressionUnchecked(expr, N, g) ==
    LET returned(run) ==
            IF run.thrown THEN [value |-> N, g |-> run.g, path |-> "catch"]
            ELSE [value |-> run.v, g |-> run.g, path |-> "result"]
    IN  returned(Run(ParseBody(Lex(safeExpression(expr, N), 1)), g))

(***************************************************************************)
(* evaluateMathExpression (lines 217-243).  The outcome is                  *)
(* [value, g, path]: the returned value, the global object afterwards and   *)
(* the return statement taken: "result" (line 238, isFinite), "fallback"    *)
(* (line 238, not finite) or "catch" (line 241).  path is not visible to    *)
(* the caller: the function returns value alone.                            *)
(***************************************************************************)
evaluateMathExpression(expr, N, g) ==
    LET returned(run) ==
            IF run.thrown THEN [value |-> N, g |-> run.g, path |-> "catch"]
            ELSE IF isFinite(run.v) THEN [value |-> run.v, g |-> run.g, path |-> "result"]
            ELSE [value |-> N, g |-> run.g, path |-> "fallback"]
    IN  returned(Run(ParseBody(Lex(safeExpression(expr, N), 1)), g))

(***************************************************************************)
(* JavaScript operators used by the terrain code around the evaluator.     *)
(***************************************************************************)
RDiv(a, b) == Num(a.n * b.d, a.d * b.n)

\* a + b on numbers (no operand of the terrain code is a string).
JsAdd(a, b) == JsSub(a, JsNeg(b))

\* a > b and a <= b: false when either side is NaN.
JsGt(a, b) ==
    LET gt(x, y) ==
            CASE x.t = "nan" \/ y.t = "nan" -> FALSE
              [] x.t = "inf" \/ y.t = "inf" ->
                    IF x.t = "inf" /\ y.t = "inf" THEN x.n > y.n
                    ELSE IF x.t = "inf" THEN x.n > 0 ELSE y.n < 0
              [] IsRat(x) /\ IsRat(y) -> RLt(y, x)
              [] OTHER -> Unsupported
    IN  gt(ToNumber(a), ToNumber(b))

JsLeq(a, b) ==
    LET leq(x, y) == x.t # "nan" /\ y.t # "nan" /\ ~JsGt(x, y)
    IN  leq(ToNumber(a), ToNumber(b))

\* Math.floor
JsFloor(v) ==
    LET floor(x) == CASE x.t \in {"nan", "inf"} -> x
                      [] IsRat(x) -> Val("num", RFloor(x), 1, 1)
                      [] OTHER -> Unsupported
    IN  floor(ToNumber(v))

\* v ?? dflt
Nullish(v, dflt) == IF v.t \in {"undefined", "null"} THEN dflt ELSE v

(***************************************************************************)
(* FastNoiseLite (declared in types/fastnoise-lite.d.ts; the library itself *)
(* is not part of the repository).  An engine is the record of its          *)
(* settings, here as new FastNoiseLite() leaves them.  GetNoise is a        *)
(* deterministic function of the engine's settings and the coordinates (2   *)
(* or 3 of them) with values among three samples of [-1, 1]; which sample   *)
(* is a fixed scramble of the settings and coordinates.                     *)
(***************************************************************************)
FastNoiseLite ==
    [seed |-> Integer(1337), frequency |-> Num(1, 100), noiseType |-> "OpenSimplex2",
     fractalType |-> "None", octaves |-> Integer(3), lacunarity |-> Integer(2),
     gain |-> Num(1, 2)]

NoiseTypes == <<"OpenSimplex2", "OpenSimplex2S", "Cellular", "Perlin", "ValueCubic", "Value">>
FractalTypes == <<"None", "FBm", "Ridged", "PingPong">>

IndexOf(seq, s) == CHOOSE i \in 1..Len(seq) : seq[i] = s

GetNoise(n, p) ==
    LET coord(i) == IF IsRat(p[i]) THEN p[i].n * (2 * i + 3) + p[i].d * (i + 1)
                    ELSE Unsupported
        sample(h) == CASE h = 0 -> Val("num", -1, 2, 1)
                       [] h = 1 -> Val("num", 0, 1, 1)
                       [] h = 2 -> Val("num", 1, 2, 1)
        scramble(mix) == ((mix * mix + mix \div 3) % 7) % 3
        key == n.seed.n * 31 + n.frequency.n * 3 + n.frequency.d
               + IndexOf(NoiseTypes, n.noiseType) * 5
               + (IF n.fractalType = "None" THEN 0
                  ELSE IndexOf(FractalTypes, n.fractalType) * 11 + n.octaves.n
                       + n.lacunarity.n + n.gain.d)
    IN  sample(scramble((key + Len(p) + coord(1) + coord(2)
                         + (IF Len(p) = 3 THEN coord(3) ELSE 0)) % 1009))

(***************************************************************************)
(* The noiseSettings prop is an object or absent (the value undefined).     *)
(* Optional(ns) is what noiseSettings?.field reads from: the object, or     *)
(* one without any field.  An absent number is undefined, an absent enum    *)
(* setting the string "undefined".                                         *)
(***************************************************************************)
EmptySettings ==
    [noiseType |-> "undefined", seed |-> Undefined, frequency |-> Undefined,
     fractalType |-> "undefined", fractalOctaves |-> Undefined,
     fractalLacunarity |-> Undefined, fractalGain |-> Undefined,
     domainWarpType |-> "undefined", domainWarpAmp |-> Undefined,
     domainWarpSeed |-> Undefined, domainWarpFrequency |-> Undefined,
     domainWarpFractalType |-> "undefined", domainWarpFractalOctaves |-> Undefined,
     domainWarpFractalLacunarity |-> Undefined, domainWarpFractalGain |-> Undefined]

Optional(ns) == IF ns = Undefined THEN EmptySettings ELSE ns

(***************************************************************************)
(* createNoiseEngines (lines 246-377).  warp and warpY exist only when      *)
(* hasWarp; an absent enum setting is the string "undefined".               *)
(***************************************************************************)
createNoiseEngines(ns) ==
    LET engines(s, seed, frequency) ==
            [base |->
                [FastNoiseLite EXCEPT
                    !.seed = seed, !.frequency = frequency,
                    !.noiseType =
                        IF s.noiseType \in {NoiseTypes[i] : i \in 1..Len(NoiseTypes)}
                        THEN s.noiseType ELSE "OpenSimplex2",
                    !.fractalType =
                        IF s.fractalType \in {"FBm", "Ridged", "PingPong"}
                        THEN s.fractalType ELSE "None",
                    !.octaves =
                        IF s.fractalType \in {"FBm", "Ridged", "PingPong"}
                        THEN s.fractalOctaves ELSE @,
                    !.lacunarity =
                        IF s.fractalType \in {"FBm", "Ridged", "PingPong"}
                        THEN s.fractalLacunarity ELSE @,
                    !.gain =
                        IF s.fractalType \in {"FBm", "Ridged", "PingPong"}
                        THEN s.fractalGain ELSE @],
             \* warpAmp !== 0 || warpFractalType !== 'None' (line 312)
             hasWarp |->
                \/ ~IsZero(Nullish(s.domainWarpAmp, Integer(0)))
                \/ s.domainWarpFractalType \notin {"undefined", "None"},
             \* wSeed and wFreq (lines 313-314)
             warp |->
                [FastNoiseLite EXCEPT
                    !.seed = Nullish(s.domainWarpSeed, RAdd(seed, Integer(9999))),
                    !.frequency = Nullish(s.domainWarpFrequency, frequency)],
             warpY |->
                [FastNoiseLite EXCEPT
                    !.seed = RAdd(Nullish(s.domainWarpSeed, RAdd(seed, Integer(9999))),
                                  Integer(1337)),
                    !.frequency = Nullish(s.domainWarpFrequency, frequency)]]
        settings(s) ==
            engines(s, Nullish(s.seed, Integer(12345)), Nullish(s.frequency, Num(1, 100)))
    IN  settings(Optional(ns))

(***************************************************************************)
(* fbm2D / fbm3D (lines 380-399): the loop over the octaves, on a point p   *)
(* of 2 or 3 coordinates.                                                   *)
(***************************************************************************)
RECURSIVE fbmLoop(_, _, _, _, _, _, _, _, _, _)
fbmLoop(n, p, i, count, lac, gain, amp, freq, sum, norm) ==
    IF ~(IsRat(count) /\ RLt(Integer(i), count)) THEN <<sum, norm>>
    ELSE fbmLoop(n, p, i + 1, count, lac, gain, RMul(amp, gain), RMul(freq, lac),
                 RAdd(sum, RMul(amp, GetNoise(n, [c \in 1..Len(p) |-> RMul(p[c], freq)]))),
                 RAdd(norm, amp))

\* The loop from its initial state, then sum / (norm || 1); Math.max(1, oct)
\* is NaN, and the loop body never runs, when oct is not a number.
fbm(n, p, oct, lac, gain) ==
    LET quotient(r) == RDiv(r[1], IF IsZero(r[2]) THEN Integer(1) ELSE r[2])
        max(o) == IF ~IsRat(o) THEN NaN
                  ELSE IF RLt(o, Integer(1)) THEN Integer(1) ELSE o
    IN  quotient(fbmLoop(n, p, 0, max(ToNumber(oct)), lac, gain, Integer(1), Integer(1),
                         Integer(0), Integer(0)))

fbm2D(n, x, y, oct, lac, gain) == fbm(n, <<x, y>>, oct, lac, gain)
fbm3D(n, x, y, z, oct, lac, gain) == fbm(n, <<x, y, z>>, oct, lac, gain)

(***************************************************************************)
(* The values the model feeds the evaluator: the noise samples, the states  *)
(* of the global object (one global variable G, absent or holding 1) and    *)
(* the formulas given to a Chunk.  Evaluated is evaluateMathExpression      *)
(* tabulated on them; a formula of ChunkExpressions leaves the global       *)
(* object as it was, so the calls of one enumeration are independent.       *)
(***************************************************************************)
NoiseValues == {Num(-1, 2), Integer(0), Num(1, 2)}

Undeclared == [declared |-> FALSE, v |-> Undefined]
Declared(v) == [declared |-> TRUE, v |-> v]
GlobalStates == {Undeclared, Declared(Integer(1))}

ChunkExpressions ==
    { <<"N">>, <<"N", "^", "2">>, <<"1", "-", "N">>, <<"|", "N", "|", "*", "2">> }

EvaluatedTable ==
    [expr \in ChunkExpressions \cup {<<"G">>} |-> [N \in NoiseValues |-> [g \in GlobalStates |->
        evaluateMathExpression(expr, N, g)]]]

Evaluated(expr, N, g) ==
    LET unchanged(r) == IF r.g = g THEN r.value ELSE Unsupported
    IN  unchanged(EvaluatedTable[expr][N][g])

\* evaluateMathExpression as the closures of one render call it: the function
\* of the noise sample, for the formula of the props P and the global object g.
transformOf(P, g) == [N \in NoiseValues |-> Evaluated(P.mathExpression, N, g)]

(***************************************************************************)
(* The warp parameters read at lines 406-409 (and again, with the same      *)
(* text, at 467-470 and 495-498).                                           *)
(***************************************************************************)
\* The warp parameters with the amplitude read as 1 whatever is configured.
WarpParamsUnitAmp(ns) ==
    LET params(s) ==
            [ampW |-> Integer(1),
             octW |-> IF s.domainWarpFractalType # "None"
                      THEN s.domainWarpFractalOctaves ELSE Integer(1),
             lacW |-> Nullish(s.domainWarpFractalLacunarity, Integer(2)),
             gainW |-> Nullish(s.domainWarpFractalGain, Num(1, 2))]
    IN  params(Optional(ns))

WarpParams(ns) ==
    LET params(s) ==
            [ampW |-> Nullish(s.domainWarpAmp, Integer(0)),
             octW |-> IF s.domainWarpFractalType # "None"
                      THEN s.domainWarpFractalOctaves ELSE Integer(1),
             lacW |-> Nullish(s.domainWarpFractalLacunarity, Integer(2)),
             gainW |-> Nullish(s.domainWarpFractalGain, Num(1, 2))]
    IN  params(Optional(ns))

(***************************************************************************)
(* createDensityFunction (lines 402-442).  The closure it returns is the    *)
(* record of what it captured; densityFunction applies it.                  *)
(***************************************************************************)
\* The generator behind each component of the displacement: dx and dy in 2D
\* (lines 414-415, 509-510), dx, dy and dz in 3D (lines 422-424, 477-479).
warpSources(e, dims) ==
    IF dims = 2 THEN <<e.warp, e.warpY>> ELSE <<e.warp, e.warpY, e.warp>>

applyWarp2D(e, w, x, y) ==
    IF ~e.hasWarp \/ IsZero(w.ampW) THEN <<x, y>>
    ELSE \* x + dx, y + dy
         <<RAdd(x, RMul(fbm2D(warpSources(e, 2)[1], x, y, w.octW, w.lacW, w.gainW), w.ampW)),
           RAdd(y, RMul(fbm2D(warpSources(e, 2)[2], RAdd(x, Num(12345, 100)), RSub(y, Num(98765, 100)),
                              w.octW, w.lacW, w.gainW), w.ampW))>>

applyWarp3D(e, w, x, y, z) ==
    IF ~e.hasWarp \/ IsZero(w.ampW) THEN <<x, y, z>>
    ELSE \* x + dx, y + dy, z + dz
         <<RAdd(x, RMul(fbm3D(warpSources(e, 3)[1], x, y, z, w.octW, w.lacW, w.gainW), w.ampW)),
           RAdd(y, RMul(fbm3D(warpSources(e, 3)[2], RAdd(x, Num(1111, 100)), RAdd(y, Num(2222, 100)),
                              RSub(z, Num(3333, 100)), w.octW, w.lacW, w.gainW), w.ampW)),
           RAdd(z, RMul(fbm3D(warpSources(e, 3)[3], RSub(x, Num(4444, 100)), RAdd(y, Num(5555, 100)),
                              RAdd(z, Num(6666, 100)), w.octW, w.lacW, w.gainW), w.ampW))>>

createDensityFunction(P, transform) ==
    [e |-> createNoiseEngines(P.noiseSettings), w |-> WarpParams(P.noiseSettings),
     P |-> P, transform |-> transform]

\* The density with the transformed noise left unscaled in 2D mode.
densityFunctionUnscaled(f, x, y, z) ==
    IF f.P.use3D
    THEN f.transform[JsNeg(GetNoise(f.e.base,
            applyWarp3D(f.e, f.w, RAdd(Integer(x), f.P.offsetX), Integer(y),
                        RAdd(Integer(z), f.P.offsetZ))))]
    ELSE JsSub(Integer(y),
               JsAdd(f.P.verticalOffset,
                     f.transform[GetNoise(f.e.base,
                        applyWarp2D(f.e, f.w, RAdd(Integer(x), f.P.offsetX),
                                    RAdd(Integer(z), f.P.offsetZ)))]))

densityFunction(f, x, y, z) ==
    LET \* line 440, from transformedNoise (line 437)
        density(transformedNoise) ==
            JsSub(Integer(y), JsAdd(f.P.verticalOffset, JsMul(transformedNoise, f.P.amplitude)))
    IN  IF f.P.use3D
        THEN \* line 433 on rawNoise (line 432)
             f.transform[JsNeg(GetNoise(f.e.base,
                applyWarp3D(f.e, f.w, RAdd(Integer(x), f.P.offsetX), Integer(y),
                            RAdd(Integer(z), f.P.offsetZ))))]
        ELSE \* line 437 on heightNoise (line 436)
             density(f.transform[GetNoise(f.e.base,
                applyWarp2D(f.e, f.w, RAdd(Integer(x), f.P.offsetX),
                            RAdd(Integer(z), f.P.offsetZ)))])

(***************************************************************************)
(* generateMarchingCubes (utils/marchingCubes, not among the sources;       *)
(* modelled from section 4.5 of the specification).  A corner is inside     *)
(* when its density is below the isolevel; the mesh has one vertex on each  *)
(* lattice edge whose two corners are on different sides.  The cells are    *)
(* the sizeX * sizeY * sizeZ unit cells, corners 0..size on each axis.      *)
(***************************************************************************)
\* The vertices of the mesh, from the corners and those of them inside.
crossings(corners, inside) ==
    {ca \in corners \X (1..3) :
        /\ [ca[1] EXCEPT ![ca[2]] = @ + 1] \in corners
        /\ (ca[1] \in inside) # ([ca[1] EXCEPT ![ca[2]] = @ + 1] \in inside)}

\* The corners of the lattice inside the surface.
insideCorners(corners, f, iso) ==
    {c \in corners : JsGt(iso, densityFunction(f, c[1], c[2], c[3]))}

\* The corners of the cells: 0..size on each axis.
latticeCorners(sX, sY, sZ) ==
    IF sX <= 0 \/ sY <= 0 \/ sZ <= 0 THEN {} ELSE (0..sX) \X (0..sY) \X (0..sZ)

generateMarchingCubes(sX, sY, sZ, f, iso, is3D) ==
    [vertices |-> crossings(latticeCorners(sX, sY, sZ),
                            insideCorners(latticeCorners(sX, sY, sZ), f, iso))]

\* smoothGeometry giving null, as in blocky mode, when the mesh has no vertex.
smoothGeometryNullWhenEmpty(P, transform) ==
    LET geometry(res) ==
            IF ~P.isSmooth \/ res.vertices = {} THEN [null |-> TRUE, vertices |-> {}]
            ELSE [null |-> FALSE, vertices |-> res.vertices]
    IN  geometry(generateMarchingCubes(P.sizeX, P.sizeY, P.sizeZ,
                                       createDensityFunction(P, transform),
                                       P.isolevel, P.use3D))

(***************************************************************************)
(* smoothGeometry (lines 445-457): null in blocky mode, else the geometry   *)
(* built from the mesher's result.                                          *)
(***************************************************************************)
smoothGeometryOf(P, transform) ==
    IF ~P.isSmooth THEN [null |-> TRUE, vertices |-> {}]
    ELSE [null |-> FALSE,
          vertices |-> generateMarchingCubes(P.sizeX, P.sizeY, P.sizeZ,
                                             createDensityFunction(P, transform),
                                             P.isolevel, P.use3D).vertices]

(***************************************************************************)
(* cubePositions (lines 460-536).  The nested loops over x, y, z run as one *)
(* loop over k = (x * sizeY + y) * sizeZ + z (3D), the column loops over     *)
(* index = x * sizeZ + z (2D); positions are pushed in that order.          *)
(***************************************************************************)
centered(P, x, y, z) ==
    <<Num(2 * x - P.sizeX + 1, 2), Num(2 * y - P.sizeY + 1, 2), Num(2 * z - P.sizeZ + 1, 2)>>

\* Lines 474-481: the warp of the 3D branch.
warped3D(e, w, x, y, z) ==
    IF e.hasWarp /\ ~IsZero(w.ampW)
    THEN \* x + dx, y + dy, z + dz
         <<RAdd(x, RMul(fbm3D(warpSources(e, 3)[1], x, y, z, w.octW, w.lacW, w.gainW), w.ampW)),
           RAdd(y, RMul(fbm3D(warpSources(e, 3)[2], RAdd(x, Num(1111, 100)), RAdd(y, Num(2222, 100)),
                              RSub(z, Num(3333, 100)), w.octW, w.lacW, w.gainW), w.ampW)),
           RAdd(z, RMul(fbm3D(warpSources(e, 3)[3], RSub(x, Num(4444, 100)), RAdd(y, Num(5555, 100)),
                              RAdd(z, Num(6666, 100)), w.octW, w.lacW, w.gainW), w.ampW))>>
    ELSE <<x, y, z>>

\* Lines 506-512: the warp of the 2D branch.
warped2D(e, w, x, z) ==
    IF e.hasWarp /\ ~IsZero(w.ampW)
    THEN \* x + dx, z + dy
         <<RAdd(x, RMul(fbm2D(warpSources(e, 2)[1], x, z, w.octW, w.lacW, w.gainW), w.ampW)),
           RAdd(z, RMul(fbm2D(warpSources(e, 2)[2], RAdd(x, Num(12345, 100)), RSub(z, Num(98765, 100)),
                              w.octW, w.lacW, w.gainW), w.ampW))>>
    ELSE <<x, z>>

\* The 3D loop keeping the cells whose transformed noise is below the
\* isolevel (isolevel > noiseValue).
RECURSIVE cubeLoop3DInverted(_, _, _, _, _)
cubeLoop3DInverted(P, transform, e, w, k) ==
    IF P.sizeX <= 0 \/ P.sizeY <= 0 \/ k >= P.sizeX * P.sizeY * P.sizeZ THEN <<>>
    ELSE LET x == k \div (P.sizeY * P.sizeZ)
             y == (k \div P.sizeZ) % P.sizeY
             z == k % P.sizeZ
         IN  (IF JsGt(P.isolevel,
                      transform[GetNoise(e.base,
                        warped3D(e, w, RAdd(Integer(x), P.offsetX), Integer(y),
                                 RAdd(Integer(z), P.offsetZ)))])
              THEN <<centered(P, x, y, z)>> ELSE <<>>)
             \o cubeLoop3DInverted(P, transform, e, w, k + 1)

\* Lines 471-492.
RECURSIVE cubeLoop3D(_, _, _, _, _)
cubeLoop3D(P, transform, e, w, k) ==
    IF P.sizeX <= 0 \/ P.sizeY <= 0 \/ k >= P.sizeX * P.sizeY * P.sizeZ THEN <<>>
    ELSE LET x == k \div (P.sizeY * P.sizeZ)
             y == (k \div P.sizeZ) % P.sizeY
             z == k % P.sizeZ
         IN  \* noiseVal (line 483) of rawNoise (line 482) against the isolevel
             (IF JsGt(transform[GetNoise(e.base,
                        warped3D(e, w, RAdd(Integer(x), P.offsetX), Integer(y),
                                 RAdd(Integer(z), P.offsetZ)))],
                      P.isolevel)
              THEN <<centered(P, x, y, z)>> ELSE <<>>)
             \o cubeLoop3D(P, transform, e, w, k + 1)

\* Lines 503-516: the two maps of the 2D branch, by index.
noiseMap(P, e, w) ==
    [index \in 0..(P.sizeX * P.sizeZ - 1) |->
        GetNoise(e.base, warped2D(e, w, RAdd(Integer(index \div P.sizeZ), P.offsetX),
                                  RAdd(Integer(index % P.sizeZ), P.offsetZ)))]

(***************************************************************************)
(* The noise of the NoisePreview image (NoisePreview.tsx).  buildEngines    *)
(* reads the settings without defaults for seed and frequency; the image    *)
(* samples the base engine at the warped point.                             *)
(***************************************************************************)
\* buildEngines with the second warp generator seeded like the first.
buildEnginesSharedWarpSeed(ns) ==
    LET fractal == ns.fractalType \in {"FBm", "Ridged", "PingPong"}
        wSeed == Nullish(ns.domainWarpSeed, JsAdd(ns.seed, Integer(9999)))
        wFreq == Nullish(ns.domainWarpFrequency, ns.frequency)
    IN  [base |->
            [FastNoiseLite EXCEPT
                !.seed = ns.seed, !.frequency = ns.frequency,
                !.noiseType =
                    IF ns.noiseType \in {NoiseTypes[i] : i \in 1..Len(NoiseTypes)}
                    THEN ns.noiseType ELSE "OpenSimplex2",
                !.fractalType = IF fractal THEN ns.fractalType ELSE "None",
                !.octaves = IF fractal THEN ns.fractalOctaves ELSE @,
                !.lacunarity = IF fractal THEN ns.fractalLacunarity ELSE @,
                !.gain = IF fractal THEN ns.fractalGain ELSE @],
         hasWarp |->
            \/ ~IsZero(Nullish(ns.domainWarpAmp, Integer(0)))
            \/ ns.domainWarpFractalType \notin {"undefined", "None"},
         warp |-> [FastNoiseLite EXCEPT !.seed = wSeed, !.frequency = wFreq],
         warpY |-> [FastNoiseLite EXCEPT !.seed = wSeed, !.frequency = wFreq]]

\* buildEngines (lines 45-129).
buildEngines(ns) ==
    LET fractal == ns.fractalType \in {"FBm", "Ridged", "PingPong"}
        \* wSeed and wFreq (lines 86-87)
        wSeed == Nullish(ns.domainWarpSeed, JsAdd(ns.seed, Integer(9999)))
        wFreq == Nullish(ns.domainWarpFrequency, ns.frequency)
    IN  [base |->
            [FastNoiseLite EXCEPT
                !.seed = ns.seed, !.frequency = ns.frequency,
                !.noiseType =
                    IF ns.noiseType \in {NoiseTypes[i] : i \in 1..Len(NoiseTypes)}
                    THEN ns.noiseType ELSE "OpenSimplex2",
                !.fractalType = IF fractal THEN ns.fractalType ELSE "None",
                !.octaves = IF fractal THEN ns.fractalOctaves ELSE @,
                !.lacunarity = IF fractal THEN ns.fractalLacunarity ELSE @,
                !.gain = IF fractal THEN ns.fractalGain ELSE @],
         \* warpAmp !== 0 || warpFractalType !== 'None' (line 85)
         hasWarp |->
            \/ ~IsZero(Nullish(ns.domainWarpAmp, Integer(0)))
            \/ ns.domainWarpFractalType \notin {"undefined", "None"},
         warp |-> [FastNoiseLite EXCEPT !.seed = wSeed, !.frequency = wFreq],
         warpY |-> [FastNoiseLite EXCEPT !.seed = JsAdd(wSeed, Integer(1337)),
                                         !.frequency = wFreq]]

\* amp, oct, lac and gain of the image (lines 161-165).
previewWarpParams(ns) ==
    [amp |-> Nullish(ns.domainWarpAmp, Integer(0)),
     oct |-> IF ns.domainWarpFractalType # "None"
             THEN ns.domainWarpFractalOctaves ELSE Integer(1),
     lac |-> Nullish(ns.domainWarpFractalLacunarity, Integer(2)),
     gain |-> Nullish(ns.domainWarpFractalGain, Num(1, 2))]

\* noiseValue of the pixel whose noise coordinates are nx, nz (lines 174-185).
previewNoise(ns, nx, nz) ==
    LET sample(e, p) ==
            IF e.hasWarp /\ ~IsZero(p.amp)
            THEN GetNoise(e.base,
                    <<RAdd(nx, RMul(fbm2D(e.warp, nx, nz, p.oct, p.lac, p.gain), p.amp)),
                      RAdd(nz, RMul(fbm2D(e.warpY, RAdd(nx, Num(12345, 100)),
                                          RSub(nz, Num(98765, 100)),
                                          p.oct, p.lac, p.gain), p.amp))>>)
            ELSE GetNoise(e.base, <<nx, nz>>)
    IN  sample(buildEngines(ns), previewWarpParams(ns))

\* isoNoiseMap sampling the carve noise at the column itself, without the
\* shift by 1000.
isoNoiseMapAtColumn(P, iso) ==
    [index \in 0..(P.sizeX * P.sizeZ - 1) |->
        GetNoise(iso, <<Integer(index \div P.sizeZ), Integer(index % P.sizeZ)>>)]

isoNoiseMap(P, iso) ==
    [index \in 0..(P.sizeX * P.sizeZ - 1) |->
        GetNoise(iso, <<Integer((index \div P.sizeZ) + 1000), Integer((index % P.sizeZ) + 1000)>>)]

\* The loop over y without the bound y < sizeY.
RECURSIVE columnLoopUnclamped(_, _, _, _, _)
columnLoopUnclamped(P, index, height, isoNoiseValue, y) ==
    IF ~JsLeq(Integer(y), height) THEN <<>>
    ELSE (IF JsGt(isoNoiseValue, P.isolevel)
          THEN <<centered(P, index \div P.sizeZ, y, index % P.sizeZ)>> ELSE <<>>)
         \o columnLoopUnclamped(P, index, height, isoNoiseValue, y + 1)

\* Lines 523-531: the loop over y of one column.
RECURSIVE columnLoop(_, _, _, _, _)
columnLoop(P, index, height, isoNoiseValue, y) ==
    IF ~(JsLeq(Integer(y), height) /\ y < P.sizeY) THEN <<>>
    ELSE (IF JsGt(isoNoiseValue, P.isolevel)
          THEN <<centered(P, index \div P.sizeZ, y, index % P.sizeZ)>> ELSE <<>>)
         \o columnLoop(P, index, height, isoNoiseValue, y + 1)

\* The column loop with the height taken below the scaled noise by the offset
\* (transformed * amplitude - verticalOffset).
RECURSIVE cubeLoop2DInverted(_, _, _, _, _)
cubeLoop2DInverted(P, transform, nm, im, index) ==
    IF P.sizeX <= 0 \/ index >= P.sizeX * P.sizeZ THEN <<>>
    ELSE columnLoop(P, index,
                    JsFloor(JsSub(JsMul(transform[nm[index]], P.amplitude), P.verticalOffset)),
                    im[index], 0)
         \o cubeLoop2DInverted(P, transform, nm, im, index + 1)

\* Lines 517-533.
RECURSIVE cubeLoop2D(_, _, _, _, _)
cubeLoop2D(P, transform, nm, im, index) ==
    IF P.sizeX <= 0 \/ index >= P.sizeX * P.sizeZ THEN <<>>
    ELSE \* height (line 522) from transformedNoise (line 521) of rawNoise
         columnLoop(P, index,
                    JsFloor(JsAdd(P.verticalOffset, JsMul(transform[nm[index]], P.amplitude))),
                    im[index], 0)
         \o cubeLoop2D(P, transform, nm, im, index + 1)

\* Lines 499-500: the engine of the carve noise.
isoEngine(ns) ==
    [createNoiseEngines(ns).base EXCEPT
        !.seed = JsAdd(IF Truthy(Optional(ns).seed) THEN Optional(ns).seed
                       ELSE Integer(12345),
                       Integer(1000))]

\* An enumerator that reads isSmooth: nothing in smooth mode.
cubePositionsOfBlockyOnly(P, transform) ==
    IF P.isSmooth THEN <<>>
    ELSE IF P.use3D
    THEN cubeLoop3D(P, transform, createNoiseEngines(P.noiseSettings),
                    WarpParams(P.noiseSettings), 0)
    ELSE cubeLoop2D(P, transform,
                    noiseMap(P, createNoiseEngines(P.noiseSettings), WarpParams(P.noiseSettings)),
                    isoNoiseMap(P, isoEngine(P.noiseSettings)), 0)

cubePositionsOf(P, transform) ==
    IF P.use3D
    THEN cubeLoop3D(P, transform, createNoiseEngines(P.noiseSettings),
                    WarpParams(P.noiseSettings), 0)
    ELSE cubeLoop2D(P, transform,
                    noiseMap(P, createNoiseEngines(P.noiseSettings), WarpParams(P.noiseSettings)),
                    isoNoiseMap(P, isoEngine(P.noiseSettings)), 0)

(***************************************************************************)
(* The formulas typed into the formula field, over a small alphabet: every  *)
(* text of up to MaxExprLen characters, the chains a^b^c and some examples. *)
(***************************************************************************)
Alphabet == {"N", "2", "-", "^", "|", "(", ")", "G"}

RECURSIVE TextsOfLength(_)
TextsOfLength(k) ==
    IF k = 0 THEN {<<>>}
    ELSE {Append(s, c) : s \in TextsOfLength(k - 1), c \in Alphabet}

CaretChains ==
    {<<a, "^", b, "^", c>> : a \in {"2", "3"}, b \in {"2", "3"}, c \in {"1", "2"}}

Examples ==
    { <<"1", "-", "N">>, <<"|", "N", "|", "*", "2">>, <<"2", "*", "N", "^", "2">>,
      <<"N", "^", "-", "1">>, <<"(", "G", "-", "-", ")", "(", ")">>,
      <<"n", "o", "t", " ", "a", "n", " ", "e", "x", "p", "r", "e", "s", "s", "i", "o", "n">>,
      <<"n", "u", "l", "l">>, <<"t", "r", "u", "e">> }

Expressions ==
    UNION {TextsOfLength(k) : k \in 0..MaxExprLen} \cup CaretChains \cup Examples

varsEval == <<expression, noiseValue, globals, result, path, calls>>

varsProps ==
    <<sizeX, sizeY, sizeZ, isolevel, amplitude, verticalOffset, noiseSettings, use3D,
      isSmooth, mathExpression, offsetX, offsetZ, updateTrigger>>

varsPanel == <<controls, frozenValues, preview, owner>>

varsChunk ==
    <<varsProps, autoUpdate, varsPanel, cubePositions, smoothGeometry, instancedMesh,
      regenerated, mount, renders>>

vars == <<varsEval, varsChunk>>

(***************************************************************************)
(* The Chunk component (lines 212-586) as a state machine: its props, the   *)
(* two memoised values and the instanced mesh.  Every step is one change    *)
(* of the props by the parent followed by the render it causes, and a      *)
(* behaviour has at most MaxRenders of them after the first render.  The    *)
(* grid is scaled down from the 8..128 of ChunkSizeControls to 1..MaxSize.  *)
(***************************************************************************)
Props ==
    [sizeX |-> sizeX, sizeY |-> sizeY, sizeZ |-> sizeZ, isolevel |-> isolevel,
     amplitude |-> amplitude, verticalOffset |-> verticalOffset,
     noiseSettings |-> noiseSettings, use3D |-> use3D, isSmooth |-> isSmooth,
     mathExpression |-> mathExpression, offsetX |-> offsetX, offsetZ |-> offsetZ,
     updateTrigger |-> updateTrigger]

\* The noiseSettings object App builds (App.tsx 104-129), with the defaults of
\* its controls except for the seed and the two domain-warp settings.
NoiseSettingsOf(seed, warpAmp, warpFractalType) ==
    [noiseType |-> "OpenSimplex2", seed |-> Integer(seed), frequency |-> Num(1, 100),
     fractalType |-> "None", fractalOctaves |-> Integer(3),
     fractalLacunarity |-> Integer(2), fractalGain |-> Num(1, 2),
     domainWarpType |-> "OpenSimplex2", domainWarpAmp |-> Integer(warpAmp),
     domainWarpSeed |-> Undefined, domainWarpFrequency |-> Undefined,
     domainWarpFractalType |-> warpFractalType,
     domainWarpFractalOctaves |-> Integer(3),
     domainWarpFractalLacunarity |-> Integer(2), domainWarpFractalGain |-> Num(1, 2)]

NoiseSettingsSet ==
    {NoiseSettingsOf(s, w[1], w[2]) :
        s \in {0, 1337}, w \in {<<0, "None">>, <<1, "None">>, <<1, "Progressive">>}}

Sizes == 1..MaxSize
Isolevels == {Integer(-1), Num(-1, 4), Num(1, 4), Integer(1)}
Amplitudes == {Integer(1), Integer(2)}
VerticalOffsets == {Integer(v) : v \in 0..MaxSize}
Offsets == {Integer(0), Integer(1)}

\* Line 569.
maxCubes == sizeX * sizeY * sizeZ

\* The instanced mesh after a render (lines 539-551 and 572-585): none in
\* smooth mode; otherwise a mesh of capacity maxCubes, constructed anew (its
\* count is its capacity) when none was mounted or the capacity changed, on
\* which the effect, when it runs, sets the matrix of every index of
\* cubePositions and the count.  written is the set of indices set.
instancedMeshOf(mesh, P, positions, effectRuns) ==
    LET capacity == P.sizeX * P.sizeY * P.sizeZ
        m == IF mesh.mounted /\ mesh.capacity = capacity THEN mesh
             ELSE [mounted |-> TRUE, capacity |-> capacity, count |-> capacity,
                   written |-> {}]
    IN  IF P.isSmooth
        THEN [mounted |-> FALSE, capacity |-> 0, count |-> 0, written |-> {}]
        ELSE IF effectRuns
        THEN [m EXCEPT !.count = Len(positions), !.written = 0..(Len(positions) - 1)]
        ELSE m

\* The errors a render raises.  With the prop absent the test of line 468
\* (496 in 2D, 407 in smooth mode) holds and noiseSettings!.domainWarpFractalOctaves
\* reads a property of undefined (TypeError); new Array(sizeX * sizeZ) at line
\* 501 raises a RangeError on a negative length.  The memo of cubePositions
\* runs in smooth mode too.
renderThrows(P) ==
    \/ Optional(P.noiseSettings).domainWarpFractalType # "None" /\ P.noiseSettings = Undefined
    \/ ~P.use3D /\ P.sizeX * P.sizeZ < 0

\* One render after the props changed: recomputed tells whether a dependency
\* of cubePositions (line 536) changed.
Render(recomputed) ==
    /\ IF renderThrows(Props')
       THEN /\ mount' = "thrown"
            /\ cubePositions' = <<>>
            /\ smoothGeometry' = [null |-> TRUE, vertices |-> {}]
            /\ instancedMesh' = [mounted |-> FALSE, capacity |-> 0, count |-> 0,
                                 written |-> {}]
            /\ regenerated' = FALSE
       ELSE /\ mount' = "rendered"
            /\ \E transform \in {transformOf(Props', globals)} :
                  /\ cubePositions' = IF recomputed THEN cubePositionsOf(Props', transform)
                                      ELSE cubePositions
                  \* the memo of line 457 has isSmooth among its dependencies
                  /\ smoothGeometry' = IF recomputed \/ isSmooth' # isSmooth
                                       THEN smoothGeometryOf(Props', transform)
                                       ELSE smoothGeometry
            /\ instancedMesh' =
                  instancedMeshOf(instancedMesh, Props', cubePositions', recomputed)
            /\ regenerated' = (recomputed \/ (isSmooth' /\ ~isSmooth))
    /\ renders' = renders + 1
    /\ UNCHANGED varsEval

Unmounted == [mounted |-> FALSE, capacity |-> 0, count |-> 0, written |-> {}]

\* The values of the props that come from the controls of the Terrain and
\* noise panels (App.tsx, lines 160-163).
ControlsOf(P) ==
    [isolevel |-> P.isolevel, amplitude |-> P.amplitude,
     verticalOffset |-> P.verticalOffset, noiseSettings |-> P.noiseSettings]

\* useState of frozenValues (App.tsx, lines 24-29): the defaults of the
\* Terrain controls and an empty settings object.
InitialFrozenValues ==
    [isolevel |-> Integer(-1), amplitude |-> Integer(2), verticalOffset |-> Integer(0),
     noiseSettings |-> EmptySettings]

\* NoisePreview as App mounts it: no offsetX, offsetZ or onOffsetsChange prop.
Uncontrolled == [controlled |-> FALSE, offsetX |-> 0, offsetZ |-> 0]

DefaultProps ==
    /\ sizeX = MaxSize /\ sizeY = MaxSize /\ sizeZ = MaxSize
    /\ isolevel = Integer(-1)
    /\ amplitude = Integer(2)
    /\ verticalOffset = Integer(0)
    /\ noiseSettings = NoiseSettingsOf(1337, 1, "None")
    /\ use3D = FALSE
    /\ isSmooth = FALSE
    /\ mathExpression = <<"N">>
    /\ offsetX = Integer(0)
    /\ offsetZ = Integer(0)
    /\ updateTrigger = 0

InitChunk ==
    /\ expression = <<>>
    /\ noiseValue = Integer(0)
    /\ globals = Undeclared
    /\ result = Undefined
    /\ path = "none"
    /\ calls = 0
    /\ DefaultProps
    /\ autoUpdate = TRUE
    /\ controls = ControlsOf(Props)
    /\ frozenValues = InitialFrozenValues
    /\ preview = [is3D |-> FALSE, isSmooth |-> FALSE, offsetX |-> 0, offsetZ |-> 0]
    /\ owner = Uncontrolled
    /\ \E transform \in {transformOf(Props, globals)} :
          /\ cubePositions = cubePositionsOf(Props, transform)
          /\ smoothGeometry = smoothGeometryOf(Props, transform)
    /\ instancedMesh = instancedMeshOf(Unmounted, Props, cubePositions, TRUE)
    /\ regenerated = TRUE
    /\ mount = "rendered"
    /\ renders = 0

SetChunkSize ==
    /\ renders < MaxRenders
    /\ \E v \in Sizes :
          \/ sizeX' = v /\ sizeX # v /\ UNCHANGED <<sizeY, sizeZ>>
          \/ sizeY' = v /\ sizeY # v /\ UNCHANGED <<sizeX, sizeZ>>
          \/ sizeZ' = v /\ sizeZ # v /\ UNCHANGED <<sizeX, sizeY>>
    /\ UNCHANGED <<isolevel, amplitude, verticalOffset, noiseSettings, use3D, isSmooth,
                   mathExpression, offsetX, offsetZ>>
    /\ UNCHANGED <<updateTrigger, autoUpdate>>
    /\ UNCHANGED varsPanel
    /\ Render(TRUE)

SetIsolevel ==
    /\ renders < MaxRenders
    /\ autoUpdate
    /\ isolevel' \in Isolevels \ {isolevel}
    /\ UNCHANGED <<sizeX, sizeY, sizeZ, amplitude, verticalOffset, noiseSettings, use3D,
                   isSmooth, mathExpression, offsetX, offsetZ>>
    /\ UNCHANGED <<updateTrigger, autoUpdate>>
    /\ controls' = [controls EXCEPT !.isolevel = isolevel']
    /\ UNCHANGED <<frozenValues, preview, owner>>
    /\ Render(TRUE)

SetAmplitude ==
    /\ renders < MaxRenders
    /\ autoUpdate
    /\ amplitude' \in Amplitudes \ {amplitude}
    /\ UNCHANGED <<sizeX, sizeY, sizeZ, isolevel, verticalOffset, noiseSettings, use3D,
                   isSmooth, mathExpression, offsetX, offsetZ>>
    /\ UNCHANGED <<updateTrigger, autoUpdate>>
    /\ controls' = [controls EXCEPT !.amplitude = amplitude']
    /\ UNCHANGED <<frozenValues, preview, owner>>
    /\ Render(TRUE)

SetVerticalOffset ==
    /\ renders < MaxRenders
    /\ autoUpdate
    /\ verticalOffset' \in VerticalOffsets \ {verticalOffset}
    /\ UNCHANGED <<sizeX, sizeY, sizeZ, isolevel, amplitude, noiseSettings, use3D,
                   isSmooth, mathExpression, offsetX, offsetZ>>
    /\ UNCHANGED <<updateTrigger, autoUpdate>>
    /\ controls' = [controls EXCEPT !.verticalOffset = verticalOffset']
    /\ UNCHANGED <<frozenValues, preview, owner>>
    /\ Render(TRUE)

SetNoiseSettings ==
    /\ renders < MaxRenders
    /\ autoUpdate
    /\ noiseSettings' \in NoiseSettingsSet \ {noiseSettings}
    /\ UNCHANGED <<sizeX, sizeY, sizeZ, isolevel, amplitude, verticalOffset, use3D,
                   isSmooth, mathExpression, offsetX, offsetZ>>
    /\ UNCHANGED <<updateTrigger, autoUpdate>>
    /\ controls' = [controls EXCEPT !.noiseSettings = noiseSettings']
    /\ UNCHANGED <<frozenValues, preview, owner>>
    /\ Render(TRUE)

\* The 2D/3D toggle changing the panel's flag without reporting it to App.
SetUse3DUnreported ==
    /\ renders < MaxRenders
    /\ preview' = [preview EXCEPT !.is3D = ~preview.is3D]
    /\ UNCHANGED varsProps
    /\ UNCHANGED autoUpdate
    /\ UNCHANGED <<controls, frozenValues, owner>>
    /\ Render(FALSE)

\* The 2D/3D toggle (NoisePreview.tsx 546-550): newIs3D = !is3D goes to the
\* panel's state and, through on3DModeChange, to App's use3D (App.tsx 204).
SetUse3D ==
    /\ renders < MaxRenders
    /\ preview' = [preview EXCEPT !.is3D = ~preview.is3D]
    /\ use3D' = ~preview.is3D
    /\ UNCHANGED <<sizeX, sizeY, sizeZ, isolevel, amplitude, verticalOffset,
                   noiseSettings, isSmooth, mathExpression, offsetX, offsetZ>>
    /\ UNCHANGED <<updateTrigger, autoUpdate>>
    /\ UNCHANGED <<controls, frozenValues, owner>>
    /\ Render(TRUE)

\* The Blocky/Smooth toggle (NoisePreview.tsx 586-590, App.tsx 205).
SetIsSmooth ==
    /\ renders < MaxRenders
    /\ preview' = [preview EXCEPT !.isSmooth = ~preview.isSmooth]
    /\ isSmooth' = ~preview.isSmooth
    /\ UNCHANGED <<sizeX, sizeY, sizeZ, isolevel, amplitude, verticalOffset,
                   noiseSettings, use3D, mathExpression, offsetX, offsetZ>>
    /\ UNCHANGED <<updateTrigger, autoUpdate>>
    /\ UNCHANGED <<controls, frozenValues, owner>>
    /\ Render(autoUpdate)

SetMathExpression ==
    /\ renders < MaxRenders
    /\ mathExpression' \in ChunkExpressions \ {mathExpression}
    /\ UNCHANGED <<sizeX, sizeY, sizeZ, isolevel, amplitude, verticalOffset,
                   noiseSettings, use3D, isSmooth, offsetX, offsetZ>>
    /\ UNCHANGED <<updateTrigger, autoUpdate>>
    /\ UNCHANGED varsPanel
    /\ Render(TRUE)

SetOffsets ==
    /\ renders < MaxRenders
    /\ \E ox \in Offsets, oz \in Offsets :
          /\ <<ox, oz>> # <<offsetX, offsetZ>>
          /\ offsetX' = ox
          /\ offsetZ' = oz
    /\ UNCHANGED <<sizeX, sizeY, sizeZ, isolevel, amplitude, verticalOffset,
                   noiseSettings, use3D, isSmooth, mathExpression>>
    /\ UNCHANGED <<updateTrigger, autoUpdate>>
    /\ UNCHANGED varsPanel
    /\ Render(TRUE)

NextChunk ==
    \/ SetChunkSize
    \/ SetIsolevel
    \/ SetAmplitude
    \/ SetVerticalOffset
    \/ SetNoiseSettings
    \/ SetUse3D
    \/ SetIsSmooth
    \/ SetMathExpression
    \/ SetOffsets

SpecChunk == InitChunk /\ [][NextChunk]_vars

(***************************************************************************)
(* The evaluator on its own: the formula field holds expression, the noise  *)
(* sample is noiseValue, and each Evaluate step is one call of              *)
(* evaluateMathExpression; no Chunk is mounted.  AmbientChange is any       *)
(* other script of the page changing the global variable.                   *)
(***************************************************************************)
InitEval ==
    /\ expression \in Expressions
    /\ noiseValue \in NoiseValues
    /\ globals \in GlobalStates
    /\ result = Undefined
    /\ path = "none"
    /\ calls = 0
    /\ DefaultProps
    /\ autoUpdate = TRUE
    /\ controls = ControlsOf(Props)
    /\ frozenValues = InitialFrozenValues
    /\ preview = [is3D |-> FALSE, isSmooth |-> FALSE, offsetX |-> 0, offsetZ |-> 0]
    /\ owner = Uncontrolled
    /\ cubePositions = <<>>
    /\ smoothGeometry = [null |-> TRUE, vertices |-> {}]
    /\ instancedMesh = Unmounted
    /\ regenerated = FALSE
    /\ mount = "none"
    /\ renders = 0

Evaluate ==
    /\ calls < MaxCalls
    /\ \E r \in {evaluateMathExpression(expression, noiseValue, globals)} :
          /\ result' = r.value
          /\ globals' = r.g
          /\ path' = r.path
    /\ calls' = calls + 1
    /\ UNCHANGED <<expression, noiseValue>>
    /\ UNCHANGED varsChunk

AmbientChange ==
    /\ calls < MaxCalls
    /\ globals' \in GlobalStates \ {globals}
    /\ UNCHANGED <<expression, noiseValue, result, path, calls>>
    /\ UNCHANGED varsChunk

NextEval == Evaluate \/ AmbientChange

SpecEval == InitEval /\ [][NextEval]_vars

(***************************************************************************)
(* The first render of a Chunk that a caller mounts with props of its own   *)
(* (the props are optional, lines 195-210, and nothing validates them), and *)
(* the re-generations the parent forces through updateTrigger while the     *)
(* props keep their values (the manual update of App.tsx, lines 200-203).   *)
(***************************************************************************)
MountSizes == (-1)..MaxSize

MountSettings ==
    {Undefined, EmptySettings}
    \cup {NoiseSettingsOf(s, w[1], w[2]) :
            s \in {0, 1337},
            w \in {<<0, "None">>, <<1, "None">>, <<0, "Progressive">>,
                   <<1, "Independent">>, <<1, "Foo">>, <<0, "Foo">>}}
    \cup {[NoiseSettingsOf(1337, 1, "None") EXCEPT !.seed = Undefined],
          [NoiseSettingsOf(1337, 1, "None") EXCEPT !.noiseType = "Foo"],
          [NoiseSettingsOf(1337, 1, "None") EXCEPT !.noiseType = "Perlin"],
          [NoiseSettingsOf(1337, 1, "None") EXCEPT !.fractalType = "Foo"],
          [NoiseSettingsOf(1337, 1, "None") EXCEPT !.fractalType = "FBm"],
          [NoiseSettingsOf(1337, 1, "None") EXCEPT !.domainWarpType = "Foo"],
          [NoiseSettingsOf(1337, 0, "None") EXCEPT !.domainWarpType = "BasicGrid"],
          [NoiseSettingsOf(1337, 1, "None") EXCEPT !.domainWarpType = "BasicGrid"]}

MountProps ==
    LET base == [sizeX |-> MaxSize, sizeY |-> MaxSize, sizeZ |-> MaxSize,
                 isolevel |-> Integer(0), amplitude |-> Integer(2),
                 verticalOffset |-> Integer(0),
                 noiseSettings |-> NoiseSettingsOf(1337, 1, "None"),
                 use3D |-> FALSE, isSmooth |-> FALSE, mathExpression |-> <<"N">>,
                 offsetX |-> Integer(0), offsetZ |-> Integer(0), updateTrigger |-> 0]
    IN  {[base EXCEPT !.sizeX = s[1], !.sizeY = s[2], !.sizeZ = s[3],
                      !.use3D = m[1], !.isSmooth = m[2]] :
            s \in MountSizes \X MountSizes \X MountSizes, m \in BOOLEAN \X BOOLEAN}
        \cup {[base EXCEPT !.noiseSettings = ns, !.use3D = m[1], !.isSmooth = m[2]] :
                ns \in MountSettings, m \in BOOLEAN \X BOOLEAN}
        \cup {[base EXCEPT !.mathExpression = <<"G">>, !.use3D = m[1], !.isSmooth = m[2]] :
                m \in BOOLEAN \X BOOLEAN}

InitMount ==
    /\ expression = <<>>
    /\ noiseValue = Integer(0)
    /\ globals \in GlobalStates
    /\ result = Undefined
    /\ path = "none"
    /\ calls = 0
    /\ \E p \in MountProps :
          /\ sizeX = p.sizeX /\ sizeY = p.sizeY /\ sizeZ = p.sizeZ
          /\ isolevel = p.isolevel
          /\ amplitude = p.amplitude
          /\ verticalOffset = p.verticalOffset
          /\ noiseSettings = p.noiseSettings
          /\ use3D = p.use3D
          /\ isSmooth = p.isSmooth
          /\ mathExpression = p.mathExpression
          /\ offsetX = p.offsetX
          /\ offsetZ = p.offsetZ
          /\ updateTrigger = p.updateTrigger
    /\ autoUpdate = FALSE
    /\ controls = ControlsOf(Props)
    /\ frozenValues = ControlsOf(Props)
    /\ preview = [is3D |-> use3D, isSmooth |-> isSmooth, offsetX |-> 0, offsetZ |-> 0]
    /\ owner = Uncontrolled
    /\ cubePositions = <<>>
    /\ smoothGeometry = [null |-> TRUE, vertices |-> {}]
    /\ instancedMesh = Unmounted
    /\ regenerated = FALSE
    /\ mount = "none"
    /\ renders = 0

Mount ==
    /\ mount = "none"
    /\ UNCHANGED <<varsProps, autoUpdate, varsPanel>>
    /\ Render(TRUE)

\* A manual update that bumps the trigger and keeps the old snapshot.
ManualUpdateKeepsSnapshot ==
    /\ renders < MaxRenders
    /\ ~autoUpdate
    /\ mount = "rendered"
    /\ updateTrigger' = updateTrigger + 1
    /\ UNCHANGED <<sizeX, sizeY, sizeZ, isolevel, amplitude, verticalOffset, noiseSettings,
                   use3D, isSmooth, mathExpression, offsetX, offsetZ, autoUpdate, varsPanel>>
    /\ Render(TRUE)

ManualUpdate ==
    /\ renders < MaxRenders
    /\ ~autoUpdate
    /\ mount = "rendered"
    \* setFrozenValues of the values of this render, setManualUpdateTrigger
    /\ frozenValues' = controls
    /\ updateTrigger' = updateTrigger + 1
    /\ isolevel' = frozenValues'.isolevel
    /\ amplitude' = frozenValues'.amplitude
    /\ verticalOffset' = frozenValues'.verticalOffset
    /\ noiseSettings' = frozenValues'.noiseSettings
    /\ UNCHANGED <<sizeX, sizeY, sizeZ, use3D, isSmooth, mathExpression, offsetX, offsetZ,
                   autoUpdate, controls, preview, owner>>
    /\ Render(TRUE)

NextMount == Mount \/ ManualUpdate \/ AmbientChange

SpecMount == InitMount /\ [][NextMount]_vars

(***************************************************************************)
(* The App with its auto-update switch (App.tsx, lines 14-29 and 156-203).  *)
(* While the switch is on the Chunk receives the noiseSettings object that  *)
(* the render of App has just built (lines 104-129), a new object on every  *)
(* render; while it is off the Chunk receives the frozen values, the same   *)
(* object from render to render.  A control changed while the switch is    *)
(* off changes the live value only (TouchControl).                          *)
(***************************************************************************)
\* A switch that does not store the current values when it is turned off.
ToggleAutoUpdateNoFreeze ==
    /\ renders < MaxRenders
    /\ mount = "rendered"
    /\ autoUpdate' = ~autoUpdate
    /\ isolevel' = IF autoUpdate' THEN controls.isolevel ELSE frozenValues.isolevel
    /\ amplitude' = IF autoUpdate' THEN controls.amplitude ELSE frozenValues.amplitude
    /\ verticalOffset' =
          IF autoUpdate' THEN controls.verticalOffset ELSE frozenValues.verticalOffset
    /\ noiseSettings' =
          IF autoUpdate' THEN controls.noiseSettings ELSE frozenValues.noiseSettings
    /\ UNCHANGED <<sizeX, sizeY, sizeZ, use3D, isSmooth, mathExpression, offsetX, offsetZ,
                   updateTrigger, varsPanel>>
    /\ Render(autoUpdate' \/ Props' # Props)

ToggleAutoUpdate ==
    /\ renders < MaxRenders
    /\ mount = "rendered"
    /\ autoUpdate' = ~autoUpdate
    \* switched off: setFrozenValues of the values of this render
    /\ frozenValues' = IF autoUpdate THEN controls ELSE frozenValues
    /\ isolevel' = IF autoUpdate' THEN controls.isolevel ELSE frozenValues'.isolevel
    /\ amplitude' = IF autoUpdate' THEN controls.amplitude ELSE frozenValues'.amplitude
    /\ verticalOffset' =
          IF autoUpdate' THEN controls.verticalOffset ELSE frozenValues'.verticalOffset
    /\ noiseSettings' =
          IF autoUpdate' THEN controls.noiseSettings ELSE frozenValues'.noiseSettings
    /\ UNCHANGED <<sizeX, sizeY, sizeZ, use3D, isSmooth, mathExpression, offsetX, offsetZ,
                   updateTrigger, controls, preview, owner>>
    \* switched on: the settings object this render has built; switched off:
    \* the object of the last render, now frozen
    /\ Render(autoUpdate' \/ Props' # Props)

\* A control of the Terrain or noise panel is moved while auto-update is off:
\* App renders again and hands the Chunk the frozen values it already had.
TouchControl ==
    /\ renders < MaxRenders
    /\ mount = "rendered"
    /\ ~autoUpdate
    /\ controls' \in ({[controls EXCEPT !.isolevel = v] : v \in Isolevels}
                      \cup {[controls EXCEPT !.noiseSettings = v] : v \in NoiseSettingsSet})
                     \ {controls}
    /\ UNCHANGED <<varsProps, autoUpdate, frozenValues, preview, owner>>
    /\ Render(FALSE)

NextApp ==
    \/ ToggleAutoUpdate
    \/ ManualUpdate
    \/ TouchControl
    \/ SetIsolevel
    \/ SetNoiseSettings
    \/ SetUse3D
    \/ SetIsSmooth

SpecApp == InitChunk /\ [][NextApp]_vars

(***************************************************************************)
(* The offsets of the NoisePreview (NoisePreview.tsx, lines 29-42 and       *)
(* 376-416).  The panel keeps them in its local state unless the parent     *)
(* passes offsetX, offsetZ and onOffsetsChange; the handlers of one event   *)
(* all see the offsets of the render the event happened in.  App mounts     *)
(* the panel without these props and the Chunk without offsets.             *)
(***************************************************************************)
MaxOffset == 4

PreviewOffsets == (-MaxOffset)..MaxOffset

\* offsetX and offsetZ as the panel reads them (lines 32-33).
previewOffsetX == IF owner.controlled THEN owner.offsetX ELSE preview.offsetX
previewOffsetZ == IF owner.controlled THEN owner.offsetZ ELSE preview.offsetZ

InitPreview ==
    /\ expression = <<>>
    /\ noiseValue = Integer(0)
    /\ globals = Undeclared
    /\ result = Undefined
    /\ path = "none"
    /\ calls = 0
    /\ DefaultProps
    /\ autoUpdate = TRUE
    /\ controls = ControlsOf(Props)
    /\ frozenValues = InitialFrozenValues
    /\ preview = [is3D |-> FALSE, isSmooth |-> FALSE, offsetX |-> 0, offsetZ |-> 0]
    /\ owner \in {Uncontrolled, [Uncontrolled EXCEPT !.controlled = TRUE]}
    /\ \E transform \in {transformOf(Props, globals)} :
          /\ cubePositions = cubePositionsOf(Props, transform)
          /\ smoothGeometry = smoothGeometryOf(Props, transform)
    /\ instancedMesh = instancedMeshOf(Unmounted, Props, cubePositions, TRUE)
    /\ regenerated = TRUE
    /\ mount = "rendered"
    /\ renders = 0

\* setOffsetX / setOffsetZ (lines 35-42) from a slider or a number field.
SetOffsetX ==
    /\ \E v \in PreviewOffsets \ {previewOffsetX} :
          IF owner.controlled
          THEN /\ owner' = [owner EXCEPT !.offsetX = v, !.offsetZ = previewOffsetZ]
               /\ UNCHANGED preview
          ELSE /\ preview' = [preview EXCEPT !.offsetX = v]
               /\ UNCHANGED owner
    /\ UNCHANGED <<varsEval, varsProps, autoUpdate, controls, frozenValues, cubePositions,
                   smoothGeometry, instancedMesh, regenerated, mount, renders>>

SetOffsetZ ==
    /\ \E v \in PreviewOffsets \ {previewOffsetZ} :
          IF owner.controlled
          THEN /\ owner' = [owner EXCEPT !.offsetX = previewOffsetX, !.offsetZ = v]
               /\ UNCHANGED preview
          ELSE /\ preview' = [preview EXCEPT !.offsetZ = v]
               /\ UNCHANGED owner
    /\ UNCHANGED <<varsEval, varsProps, autoUpdate, controls, frozenValues, cubePositions,
                   smoothGeometry, instancedMesh, regenerated, mount, renders>>

\* The click on Reset (line 378): setOffsetX(0), then setOffsetZ(0), both with
\* the offsets of the render the click happened in.
ResetOffsets ==
    /\ IF owner.controlled
       THEN \* onOffsetsChange(0, offsetZ), then onOffsetsChange(offsetX, 0)
            /\ owner' = [owner EXCEPT !.offsetX = previewOffsetX, !.offsetZ = 0]
            /\ UNCHANGED preview
       ELSE /\ preview' = [preview EXCEPT !.offsetX = 0, !.offsetZ = 0]
            /\ UNCHANGED owner
    /\ UNCHANGED <<varsEval, varsProps, autoUpdate, controls, frozenValues, cubePositions,
                   smoothGeometry, instancedMesh, regenerated, mount, renders>>

NextPreview == SetOffsetX \/ SetOffsetZ \/ ResetOffsets

SpecPreview == InitPreview /\ [][NextPreview]_vars

(***************************************************************************)
(* Claims about the expression evaluator (checked under SpecEval).         *)
(***************************************************************************)

\* C1: whenever a call's rewritten text fails to compile, throws when run, or
\* yields a value that is not finite, the call returns exactly the N it was
\* given (and it always returns: the step is defined for every input).
C1_FallbackReturnsN ==
    [][calls' = calls + 1 =>
        LET func == ParseBody(Lex(safeExpression(expression, noiseValue), 1))
            run == Eval(func.e, globals)
        IN  /\ path' \in {"result", "fallback", "catch"}
            /\ (~func.ok \/ run.thrown \/ ~isFinite(run.v)) => result' = noiseValue
      ]_varsEval

\* C1 witness: "N^-1" with N = 0 is Math.pow(0, -1), Infinity, and the call
\* has returned N.
C1_Witness ==
    /\ calls > 0
    /\ expression = <<"N", "^", "-", "1">>
    /\ path = "fallback"
    /\ result = noiseValue

\* C2 (as claimed): a fallback is observable, i.e. what the caller receives
\* from a call that fell back differs from what it receives from the genuine
\* evaluation of "N" with the same N.
C2_FallbackObservable ==
    (calls > 0 /\ path \in {"fallback", "catch"}) =>
        result # evaluateMathExpression(<<"N">>, noiseValue, globals).value

\* C3 (as claimed): an expression that mentions N has the value it has with N
\* bound to the noise value; here "1-N" is 1 minus N and "N^2" is N times N.
C3_ValueWithNBound ==
    calls > 0 =>
        /\ expression = <<"1", "-", "N">> => result = RSub(Integer(1), noiseValue)
        /\ expression = <<"N", "^", "2">> => result = RMul(noiseValue, noiseValue)

\* C4 (as claimed): a^b^c evaluates to a raised to (b raised to c).
C4_RightAssociative ==
    (calls > 0 /\ expression \in CaretChains) =>
        result = Num(IntPow(DigitVal(expression[1]),
                            IntPow(DigitVal(expression[3]), DigitVal(expression[5]))), 1)

\* C5 (as claimed): a call neither changes the state outside the evaluator
\* nor depends on it: the global object is left as it was, and a second call
\* with the same expression and N returns what the first returned.
C5_Pure ==
    [][calls' = calls + 1 =>
        /\ globals' = globals
        /\ (calls > 0 => result' = result)
      ]_varsEval

(***************************************************************************)
(* Claims about the blocky enumerator and the smooth path (checked under   *)
(* SpecChunk).  VoxelSet is the set of the positions in cubePositions;      *)
(* CellCentre is the position of a grid index after re-centring            *)
(* (index - size/2 + 0.5).                                                  *)
(***************************************************************************)
VoxelSet == {cubePositions[i] : i \in 1..Len(cubePositions)}

CellCentre(x, y, z) ==
    <<RSub(Integer(x), Num(sizeX - 1, 2)), RSub(Integer(y), Num(sizeY - 1, 2)),
      RSub(Integer(z), Num(sizeZ - 1, 2))>>

\* C6 (as claimed): in blocky 3D mode a cell of the grid is in the VoxelSet
\* exactly when the density function handed to the mesher is above isolevel
\* there.
C6_Blocky3DIsDensityAboveIsolevel ==
    use3D =>
        \A x \in 0..(sizeX - 1), y \in 0..(sizeY - 1), z \in 0..(sizeZ - 1) :
            (CellCentre(x, y, z) \in VoxelSet)
                <=> JsGt(densityFunction(createDensityFunction(Props, transformOf(Props, globals)), x, y, z),
                         isolevel)

\* The carve noise of column (x, z), computed apart from the enumerator.
CarveNoise(x, z) ==
    GetNoise(isoEngine(noiseSettings), <<Integer(x + 1000), Integer(z + 1000)>>)

\* C7: in blocky 2D mode cell (x, y, z) is in the VoxelSet exactly when
\* 0 <= y < sizeY, y <= floor(verticalOffset + E * amplitude) with E the
\* evaluator applied to the base noise of the column, and the carve noise of
\* the column is above isolevel.
C7_Blocky2DColumns ==
    ~use3D =>
        \A x \in 0..(sizeX - 1), z \in 0..(sizeZ - 1) :
            LET e == createNoiseEngines(noiseSettings)
                p == applyWarp2D(e, WarpParams(noiseSettings),
                                 RAdd(Integer(x), offsetX), RAdd(Integer(z), offsetZ))
                E == evaluateMathExpression(mathExpression, GetNoise(e.base, p), globals).value
                top == RFloor(RAdd(verticalOffset, RMul(E, amplitude)))
            IN  \A y \in (-1)..sizeY :
                    (CellCentre(x, y, z) \in VoxelSet)
                        <=> (0 <= y /\ y < sizeY /\ y <= top /\ RLt(isolevel, CarveNoise(x, z)))

\* The cells of column (x, z) that are in the VoxelSet.
ColumnCells(x, z) == {y \in 0..(sizeY - 1) : CellCentre(x, y, z) \in VoxelSet}

\* C7 witness: a 2D terrain, rendered after a change of the props, with a
\* column that is partly filled and a column that the carve noise empties
\* although its terrain height reaches into the grid.
C7_Witness ==
    /\ ~use3D
    /\ renders > 0
    /\ \E x \in 0..(sizeX - 1), z \in 0..(sizeZ - 1) :
          ColumnCells(x, z) # {} /\ ColumnCells(x, z) # 0..(sizeY - 1)
    /\ \E x \in 0..(sizeX - 1), z \in 0..(sizeZ - 1) :
          /\ ColumnCells(x, z) = {}
          /\ ~RLt(isolevel, CarveNoise(x, z))
          /\ JsLeq(densityFunction(createDensityFunction(Props, transformOf(Props, globals)), x, 0, z), Integer(0))

\* C8: every emitted position is the centre of a cell of the grid (its index
\* before re-centring is whole and within 0..size-1 on each axis), there are
\* at most sizeX * sizeY * sizeZ of them, and the instanced mesh, when
\* mounted, has that capacity and no matrix set at or beyond it.
C8_WithinGridAndCapacity ==
    /\ \A i \in 1..Len(cubePositions) :
          LET ix == RAdd(cubePositions[i][1], Num(sizeX - 1, 2))
              iy == RAdd(cubePositions[i][2], Num(sizeY - 1, 2))
              iz == RAdd(cubePositions[i][3], Num(sizeZ - 1, 2))
          IN  /\ IsInt(ix) /\ 0 <= ix.n /\ ix.n < sizeX
              /\ IsInt(iy) /\ 0 <= iy.n /\ iy.n < sizeY
              /\ IsInt(iz) /\ 0 <= iz.n /\ iz.n < sizeZ
    /\ Len(cubePositions) <= sizeX * sizeY * sizeZ
    /\ instancedMesh.mounted =>
          /\ instancedMesh.capacity = sizeX * sizeY * sizeZ
          /\ \A i \in instancedMesh.written : i < instancedMesh.capacity

\* C8 witness: a grid that is not a cube, every cell of it emitted, and the
\* effect has set the matrix of every index up to the capacity.
C8_Witness ==
    /\ renders > 0
    /\ sizeX # sizeZ
    /\ Len(cubePositions) = sizeX * sizeY * sizeZ
    /\ instancedMesh.mounted
    /\ instancedMesh.written = 0..(instancedMesh.capacity - 1)

\* C9: in blocky 2D mode, a step that changes verticalOffset alone and does
\* not lower it keeps every solid cell, and one that does not raise it adds
\* none.
C9_MonotoneInVerticalOffset ==
    [][(/\ ~use3D
        /\ UNCHANGED <<sizeX, sizeY, sizeZ, isolevel, amplitude, noiseSettings, use3D,
                       mathExpression, offsetX, offsetZ>>)
        => /\ ~RLt(verticalOffset', verticalOffset) => VoxelSet \subseteq VoxelSet'
           /\ ~RLt(verticalOffset, verticalOffset') => VoxelSet' \subseteq VoxelSet
      ]_vars

\* C9 witness: a 2D terrain whose verticalOffset has been raised above 0 and
\* that has strictly more solid cells than the same terrain at offset 0.
C9_Witness ==
    /\ ~use3D
    /\ renders > 0
    /\ RLt(Integer(0), verticalOffset)
    /\ LET low == cubePositionsOf([Props EXCEPT !.verticalOffset = Integer(0)],
                                     transformOf(Props, globals))
           lowSet == {low[i] : i \in 1..Len(low)}
       IN  lowSet \subseteq VoxelSet /\ lowSet # VoxelSet /\ lowSet # {}

\* The values the noise and the transformed noise take.
ScalarValues ==
    NoiseValues \cup {evaluateMathExpression(mathExpression, v, globals).value : v \in NoiseValues}

AboveEveryScalar == \A v \in ScalarValues : JsGt(isolevel, v)

\* C10 (as claimed): with isolevel above every value of the noise and of the
\* transformed noise, the VoxelSet is empty in 2D and 3D mode and the smooth
\* path gives a geometry, not null, without vertices.
C10_AsClaimed ==
    AboveEveryScalar =>
        /\ cubePositions = <<>>
        /\ isSmooth => (~smoothGeometry.null /\ smoothGeometry.vertices = {})

\* C10 (amended): with isolevel above every value of the noise and of the
\* transformed noise, the VoxelSet is empty in 2D and 3D mode and the smooth
\* path gives a geometry, not null, in both modes; in 3D mode that geometry
\* has no vertex (in 2D mode the density is y minus the terrain height, which
\* such an isolevel need not exceed).
C10_EmptyAboveEveryValue ==
    AboveEveryScalar =>
        /\ cubePositions = <<>>
        /\ isSmooth =>
              /\ ~smoothGeometry.null
              /\ use3D => smoothGeometry.vertices = {}

\* C10 witness: smooth 3D mode, isolevel above every value: no cube, and a
\* geometry without vertices.
C10_Witness ==
    /\ renders > 0
    /\ AboveEveryScalar
    /\ isSmooth
    /\ use3D
    /\ cubePositions = <<>>
    /\ ~smoothGeometry.null
    /\ smoothGeometry.vertices = {}

BelowEveryScalar == \A v \in ScalarValues : JsGt(v, isolevel)

\* Every cell of the grid, re-centred.
AllCells ==
    {CellCentre(x, y, z) : x \in 0..(sizeX - 1), y \in 0..(sizeY - 1), z \in 0..(sizeZ - 1)}

\* C11 (as claimed): with isolevel below every value of the noise and of the
\* transformed noise, the VoxelSet holds all sizeX * sizeY * sizeZ cells, in
\* 2D mode as in 3D mode.
C11_AsClaimed ==
    BelowEveryScalar =>
        (VoxelSet = AllCells /\ Len(cubePositions) = sizeX * sizeY * sizeZ)

\* C11 (amended): with isolevel below every value of the noise and of the
\* transformed noise, the VoxelSet holds every cell once in 3D mode; in 2D
\* mode no column is carved and each column holds exactly its cells at or
\* below the terrain height (those where the 2D density is not positive).
C11_SolidBelowEveryValue ==
    BelowEveryScalar =>
        IF use3D
        THEN VoxelSet = AllCells /\ Len(cubePositions) = sizeX * sizeY * sizeZ
        ELSE \A x \in 0..(sizeX - 1), z \in 0..(sizeZ - 1) :
                ColumnCells(x, z) =
                    {y \in 0..(sizeY - 1) :
                        JsLeq(densityFunction(createDensityFunction(Props,
                                                transformOf(Props, globals)), x, y, z),
                              Integer(0))}

\* C11 witness: after a change of the props, 3D mode with isolevel below
\* every value on a grid that is not a cube, every cell emitted once.
C11_Witness ==
    /\ renders > 0
    /\ use3D
    /\ BelowEveryScalar
    /\ sizeX # sizeY
    /\ VoxelSet = AllCells
    /\ Len(cubePositions) = sizeX * sizeY * sizeZ

\* C12: generation is deterministic: a re-generation of a mounted chunk whose
\* parameters (every prop but the update counter) kept their values produces
\* the same cube positions in the same order.
C12_Deterministic ==
    [][(mount = "rendered" /\ mount' = "rendered" /\ renders' # renders
        /\ [Props EXCEPT !.updateTrigger = 0] = [Props' EXCEPT !.updateTrigger = 0])
       => cubePositions' = cubePositions]_vars

\* The terrain height of column (x, z) in 2D mode: verticalOffset + E * amplitude
\* with E the evaluator applied to the base noise at the warped position of
\* (x + offsetX, z + offsetZ).
TerrainHeight(x, z) ==
    LET e == createNoiseEngines(noiseSettings)
        p == applyWarp2D(e, WarpParams(noiseSettings),
                         RAdd(Integer(x), offsetX), RAdd(Integer(z), offsetZ))
        E == evaluateMathExpression(mathExpression, GetNoise(e.base, p), globals).value
    IN  RAdd(verticalOffset, RMul(E, amplitude))

\* The density function of the current props at lattice point (x, y, z).
Density(x, y, z) ==
    densityFunction(createDensityFunction(Props, transformOf(Props, globals)), x, y, z)

\* C13: in 2D mode the density at (x, y, z) is y minus the terrain height of
\* the column, so it is negative below the height, zero on it and positive
\* above it, and a column that holds cells holds those up to the floor of
\* that same height.
C13_Density2D ==
    (~use3D /\ mount = "rendered") =>
        \A x \in 0..(sizeX - 1), z \in 0..(sizeZ - 1) :
            /\ \A y \in 0..sizeY :
                  /\ Density(x, y, z) = RSub(Integer(y), TerrainHeight(x, z))
                  /\ RLt(Density(x, y, z), Integer(0)) <=> RLt(Integer(y), TerrainHeight(x, z))
                  /\ IsZero(Density(x, y, z)) <=> (Integer(y) = TerrainHeight(x, z))
                  /\ RLt(Integer(0), Density(x, y, z)) <=> RLt(TerrainHeight(x, z), Integer(y))
            /\ ColumnCells(x, z) # {} =>
                  ColumnCells(x, z) = {y \in 0..(sizeY - 1) : y <= RFloor(TerrainHeight(x, z))}

\* C13 witness: a 2D terrain rendered after a change of the props with a
\* column whose height is not a whole number and which holds the cells up to
\* its floor, leaving a cell above, and a lattice point of density zero.
C13_Witness ==
    /\ renders > 0 /\ ~use3D /\ mount = "rendered"
    /\ \E x \in 0..(sizeX - 1), z \in 0..(sizeZ - 1) :
          /\ Integer(RFloor(TerrainHeight(x, z))) # TerrainHeight(x, z)
          /\ ColumnCells(x, z) = 0..RFloor(TerrainHeight(x, z))
          /\ RFloor(TerrainHeight(x, z)) + 1 < sizeY
          /\ RLt(Integer(0), Density(x, RFloor(TerrainHeight(x, z)) + 1, z))
    /\ \E x \in 0..(sizeX - 1), z \in 0..(sizeZ - 1), y \in 0..sizeY :
          IsZero(Density(x, y, z))

\* C14: in blocky 2D mode the engine of the carve field is seeded with the
\* seed of the base engine plus 1000, whatever seed is configured.
C14_CarveSeedIsBasePlus1000 ==
    (~use3D /\ mount = "rendered") =>
        isoEngine(noiseSettings).seed
            = RAdd(createNoiseEngines(noiseSettings).base.seed, Integer(1000))

\* The configured warp amplitude is zero or absent.
ZeroWarpAmp == IsZero(Nullish(Optional(noiseSettings).domainWarpAmp, Integer(0)))

\* C15: with a warp amplitude of zero the base noise is sampled at the
\* unwarped coordinates (x + offsetX, y, z + offsetZ), or (x + offsetX,
\* z + offsetZ) in 2D, by the density function and by both blocky paths,
\* whatever the warp type and the warp fractal settings are.
C15_UnwarpedAtZeroAmp ==
    (mount = "rendered" /\ ZeroWarpAmp) =>
        LET base == createNoiseEngines(noiseSettings).base
            t == transformOf(Props, globals)
            at2D(x, z) ==
                t[GetNoise(base, <<RAdd(Integer(x), offsetX), RAdd(Integer(z), offsetZ)>>)]
            at3D(x, y, z) ==
                GetNoise(base, <<RAdd(Integer(x), offsetX), Integer(y),
                                 RAdd(Integer(z), offsetZ)>>)
        IN  \A x \in 0..sizeX, y \in 0..sizeY, z \in 0..sizeZ :
                /\ Density(x, y, z) =
                      IF use3D THEN t[JsNeg(at3D(x, y, z))]
                      ELSE RSub(Integer(y), RAdd(verticalOffset, RMul(at2D(x, z), amplitude)))
                /\ (x < sizeX /\ y < sizeY /\ z < sizeZ) =>
                      ((CellCentre(x, y, z) \in VoxelSet)
                          <=> IF use3D THEN JsGt(t[at3D(x, y, z)], isolevel)
                              ELSE /\ y <= RFloor(RAdd(verticalOffset,
                                                       RMul(at2D(x, z), amplitude)))
                                   /\ RLt(isolevel, CarveNoise(x, z)))

\* C15 witness: a rendered chunk whose settings have a warp amplitude of zero
\* and a warp fractal type other than None, so that the warp engines exist,
\* with cubes in the output.
C15_Witness ==
    /\ mount = "rendered" /\ ZeroWarpAmp
    /\ noiseSettings # Undefined
    /\ noiseSettings.domainWarpFractalType = "Progressive"
    /\ createNoiseEngines(noiseSettings).hasWarp
    /\ cubePositions # <<>>

\* C16: when the warp is active the components of the displacement come from
\* generators whose seeds are pairwise different: two in 2D, three in 3D.
C16_PairwiseDifferentSeeds ==
    (mount = "rendered" /\ createNoiseEngines(noiseSettings).hasWarp /\ ~ZeroWarpAmp) =>
        LET sources == warpSources(createNoiseEngines(noiseSettings), IF use3D THEN 3 ELSE 2)
        IN  \A i, j \in 1..Len(sources) : i # j => sources[i].seed # sources[j].seed

\* The settings with every unknown type name replaced by its documented
\* default: OpenSimplex2 noise, no fractal, no warp for an unknown warp type
\* and the warp fractal None for an unknown warp fractal type.
DocumentedDefaults(s) ==
    [s EXCEPT
        !.noiseType = IF @ \in {NoiseTypes[i] : i \in 1..Len(NoiseTypes)}
                      THEN @ ELSE "OpenSimplex2",
        !.fractalType = IF @ \in {FractalTypes[i] : i \in 1..Len(FractalTypes)}
                        THEN @ ELSE "None",
        !.domainWarpAmp = IF s.domainWarpType \in {"OpenSimplex2", "OpenSimplex2Reduced",
                                                   "BasicGrid"}
                          THEN @ ELSE Integer(0),
        !.domainWarpFractalType = IF @ \in {"None", "Progressive", "Independent"}
                                  THEN @ ELSE "None"]

\* C17: with a type name outside the known values a chunk of positive sizes
\* renders, and what it generates is what the documented defaults generate.
C17_UnknownAsDefault ==
    (/\ mount # "none" /\ sizeX > 0 /\ sizeY > 0 /\ sizeZ > 0
     /\ noiseSettings \notin {Undefined, EmptySettings}) =>
        /\ mount = "rendered"
        /\ cubePositions =
              cubePositionsOf([Props EXCEPT !.noiseSettings = DocumentedDefaults(noiseSettings)],
                              transformOf(Props, globals))
        /\ smoothGeometry =
              smoothGeometryOf([Props EXCEPT !.noiseSettings = DocumentedDefaults(noiseSettings)],
                               transformOf(Props, globals))

\* The settings a chunk is to fall back to, field by field, where the given
\* ones are absent: seed 12345, frequency 0.01, OpenSimplex2, no fractal and
\* no warp.
WithDefaults(ns) ==
    [field \in DOMAIN EmptySettings |->
        IF Optional(ns)[field] # EmptySettings[field] THEN Optional(ns)[field]
        ELSE CASE field = "seed" -> Integer(12345)
               [] field = "frequency" -> Num(1, 100)
               [] field = "noiseType" -> "OpenSimplex2"
               [] field = "domainWarpType" -> "OpenSimplex2"
               [] field \in {"fractalType", "domainWarpFractalType"} -> "None"
               [] field = "domainWarpAmp" -> Integer(0)
               [] field \in {"fractalOctaves", "domainWarpFractalOctaves"} -> Integer(3)
               [] field \in {"fractalLacunarity", "domainWarpFractalLacunarity"} -> Integer(2)
               [] field \in {"fractalGain", "domainWarpFractalGain"} -> Num(1, 2)
               [] OTHER -> Undefined]

\* C18: a chunk of positive sizes mounted without noise settings, or with a
\* settings record that lacks fields, renders, and generates what the
\* defaults generate, in blocky and in smooth mode.
C18_AbsentSettingsUseDefaults ==
    (/\ mount # "none" /\ sizeX > 0 /\ sizeY > 0 /\ sizeZ > 0
     /\ WithDefaults(noiseSettings) # noiseSettings) =>
        /\ mount = "rendered"
        /\ cubePositions =
              cubePositionsOf([Props EXCEPT !.noiseSettings = WithDefaults(noiseSettings)],
                              transformOf(Props, globals))
        /\ smoothGeometry =
              smoothGeometryOf([Props EXCEPT !.noiseSettings = WithDefaults(noiseSettings)],
                               transformOf(Props, globals))

\* C19: a chunk with a size that is zero or negative renders, in 2D and in
\* 3D, blocky and smooth, and its output is empty: no cube positions and no
\* mesh vertices.
C19_EmptyForNonPositiveSizes ==
    (mount # "none" /\ (sizeX <= 0 \/ sizeY <= 0 \/ sizeZ <= 0)) =>
        /\ mount = "rendered"
        /\ cubePositions = <<>>
        /\ smoothGeometry.vertices = {}

\* C20: the enumerator or the mesher runs again only on a render in which a
\* governing parameter (a prop of the Chunk, the update counter included)
\* has a value different from the one of the previous render.
C20_RegenerationOnlyOnChange ==
    [][(renders' # renders /\ regenerated') => Props' # Props]_vars

\* C21: while auto-update stays off and Update 3D is not clicked, no event
\* changes a parameter the Chunk generates from, nor the generated terrain.
C21_SnapshotWhileOff ==
    [][(~autoUpdate /\ ~autoUpdate' /\ updateTrigger' = updateTrigger)
       => (Props' = Props /\ cubePositions' = cubePositions
           /\ smoothGeometry' = smoothGeometry)]_vars

\* C22: whenever the Chunk is rendered in blocky mode the instanced mesh is
\* mounted, its count is the number of cube positions and the matrix of
\* every instance below the count has been written from cubePositions.
C22_MeshShowsVoxelSet ==
    (mount = "rendered" /\ ~isSmooth) =>
        /\ instancedMesh.mounted
        /\ instancedMesh.count = Len(cubePositions)
        /\ instancedMesh.written = 0..(Len(cubePositions) - 1)

C24_ManualUpdateRegenerates ==
    [][updateTrigger' # updateTrigger =>
          /\ ~autoUpdate /\ ~autoUpdate'
          /\ ControlsOf(Props') = controls /\ controls' = controls
          /\ regenerated'
          /\ cubePositions' = cubePositionsOf(Props', transformOf(Props', globals'))]_vars

\* C24 witness: after a click on Update 3D the Chunk has regenerated from an
\* isolevel other than the one the App starts with.
C24_Witness ==
    /\ updateTrigger > 0 /\ ~autoUpdate /\ regenerated /\ mount = "rendered"
    /\ isolevel # Integer(-1)
    /\ ControlsOf(Props) = controls

\* C25: the step that switches auto-update off leaves the isolevel,
\* amplitude, verticalOffset and noiseSettings of the Chunk as they were and
\* runs neither the enumerator nor the mesher; and after any step that leaves
\* auto-update off the frozen values are not the ones frozenValues was
\* created with.
C25_SwitchOffFreezes ==
    [][/\ (autoUpdate /\ ~autoUpdate') =>
             /\ ControlsOf(Props') = ControlsOf(Props)
             /\ ~regenerated'
             /\ cubePositions' = cubePositions
       /\ ~autoUpdate' =>
             /\ frozenValues' # InitialFrozenValues
             /\ frozenValues'.noiseSettings # EmptySettings]_vars

\* C25 witness: auto-update has just been switched off after the isolevel
\* control was moved; the Chunk holds the moved value and did not regenerate.
C25_Witness ==
    /\ ~autoUpdate /\ renders > 1 /\ ~regenerated /\ mount = "rendered"
    /\ updateTrigger = 0
    /\ frozenValues = controls
    /\ isolevel # Integer(-1)
    /\ cubePositions # <<>>

\* C26: a click on Reset leaves both offsets of the panel at 0, with local
\* and with controlled offsets.
C26_ResetZeroesBoth ==
    [][ResetOffsets => (previewOffsetX' = 0 /\ previewOffsetZ' = 0)]_vars

\* C27: in the running App (the panel keeps its offsets itself) the offsets
\* the Chunk generates with are the offsets the preview is drawn with.
C27_ChunkUsesPreviewOffsets ==
    ~owner.controlled =>
        (offsetX = Integer(previewOffsetX) /\ offsetZ = Integer(previewOffsetZ))

\* Settings with every field of the object App builds (App.tsx 104-129).
FullySpecified(ns) ==
    /\ ns # Undefined
    /\ \A f \in {"noiseType", "fractalType", "domainWarpType", "domainWarpFractalType"} :
          ns[f] # "undefined"
    /\ \A f \in {"seed", "frequency", "fractalOctaves", "fractalLacunarity", "fractalGain",
                 "domainWarpAmp", "domainWarpFractalOctaves",
                 "domainWarpFractalLacunarity", "domainWarpFractalGain"} :
          ns[f] # Undefined

\* The noise coordinates of the columns of a chunk of MaxSize by MaxSize.
ColumnCoordinates ==
    {<<RAdd(Integer(x), offsetX), RAdd(Integer(z), offsetZ)>> : x, z \in 0..(MaxSize - 1)}

\* C28: for fully specified settings buildEngines of the preview configures
\* the engines createNoiseEngines of the Chunk configures, and at equal noise
\* coordinates the preview's sample is the raw noise of the Chunk's 2D path.
C28_PreviewMirrorsChunk ==
    (mount = "rendered" /\ FullySpecified(noiseSettings)) =>
        /\ buildEngines(noiseSettings) = createNoiseEngines(noiseSettings)
        /\ \A c \in ColumnCoordinates :
              LET chunk(e, w) ==
                      /\ previewNoise(noiseSettings, c[1], c[2])
                            = GetNoise(e.base, warped2D(e, w, c[1], c[2]))
                      /\ previewNoise(noiseSettings, c[1], c[2])
                            = GetNoise(e.base, applyWarp2D(e, w, c[1], c[2]))
              IN  chunk(createNoiseEngines(noiseSettings), WarpParams(noiseSettings))

\* C28 witness: a rendered chunk with fully specified settings and an active
\* warp that moves the sample of some column.
C28_Witness ==
    /\ mount = "rendered" /\ FullySpecified(noiseSettings)
    /\ buildEngines(noiseSettings).hasWarp
    /\ ~IsZero(previewWarpParams(noiseSettings).amp)
    /\ \E c \in ColumnCoordinates :
          previewNoise(noiseSettings, c[1], c[2])
              # GetNoise(buildEngines(noiseSettings).base, c)

\* C29: whatever the expression, the value evaluateMathExpression returns is
\* a finite number: not null, a boolean, a string, NaN or an infinity.
C29_ReturnsFiniteNumber ==
    calls > 0 => result.t = "num"

\* C30: after any sequence of clicks on the two mode toggles the panel's
\* is3D and isSmooth equal App's use3D and isSmooth.
C30_ModeFlagsInSync ==
    preview.is3D = use3D /\ preview.isSmooth = isSmooth

\* C30 witness: both toggles clicked once, the chunk in 3D and smooth.
C30_Witness ==
    preview.is3D /\ preview.isSmooth /\ use3D /\ isSmooth

=============================================================================
